---- MODULE Spec2Model ----
(***************************************************************************)
(* Coordination core of the procurement e-mail demo: the cost optimizer    *)
(* (tier selection, cascading invocation, response cache), the             *)
(* observability ledger and the orchestrator with its agent registry.      *)
(*                                                                         *)
(* Python's asyncio runs one coroutine at a time and switches only at an   *)
(* await that really suspends.  The only such points are the provider      *)
(* invocations (_call_openai), so every action below is the whole run of   *)
(* one coroutine from one suspension point to the next.                    *)
(***************************************************************************)
EXTENDS Integers, Sequences, FiniteSets, TLC

(***************************************************************************)
(* Bounds of the model.                                                    *)
(***************************************************************************)
NumProcs == 2        \* concurrently running coroutines (callers, requests)
MaxOps == 3          \* call_llm calls started, over all callers
MaxRequests == 2     \* process_email calls started, over all coroutines
MaxReads == 2        \* cache lookups interleaved with the FIFO insertions
ExtraPuts == 2       \* FIFO insertions beyond the capacity of the cache

(***************************************************************************)
(* Program constants.                                                      *)
(***************************************************************************)
CacheCapacity == 1000
EventCapacity == 1000
MinAdequateLen == 10
TextThreshold == 500

Procs == 1..NumProcs

\* class ModelTier: the members are used through their values, which are
\* also the keys of stats["calls_by_tier"]
SMALL == "gpt-3.5-turbo"
MEDIUM == "gpt-3.5-turbo-16k"
LARGE == "gpt-4"
ModelTier == {SMALL, MEDIUM, LARGE}
NoTier == "None"     \* force_tier=None

(***************************************************************************)
(* Python values that travel in a context dict.  A value is a record       *)
(* [t, s, d]: t is the type ("str", "bool", "null", "dict", "object"), s   *)
(* the text of a scalar and d the items of a dict.  A dict is the sequence *)
(* of its <<key, value>> items in insertion order, keys distinct.          *)
(***************************************************************************)
PyStr(x) == [t |-> "str", s |-> x, d |-> <<>>]
PyBool(b) == [t |-> "bool", s |-> IF b THEN "true" ELSE "false", d |-> <<>>]
PyNone == [t |-> "null", s |-> "null", d |-> <<>>]
PyDict(items) == [t |-> "dict", s |-> "", d |-> items]

\* bool(v)
Truthy(v) ==
    CASE v.t = "str" -> v.s # ""
      [] v.t = "bool" -> v.s = "true"
      [] v.t = "dict" -> Len(v.d) > 0
      [] OTHER -> FALSE

\* an object json.dumps has no encoding for (a datetime, a set, ...), given
\* by its str()
PyObject(text) == [t |-> "object", s |-> text, d |-> <<>>]

\* str(v) of a value that is no dict
PyStrOf(v) ==
    CASE v.t = "bool" -> (IF v.s = "true" THEN "True" ELSE "False")
      [] v.t = "null" -> "None"
      [] OTHER -> v.s

\* json.dumps(v) returns (it raises TypeError on an object it cannot encode,
\* at any depth)
RECURSIVE JsonSerializable(_)
JsonSerializable(v) ==
    /\ v.t # "object"
    /\ v.t = "dict" => \A i \in 1..Len(v.d) : JsonSerializable(v.d[i][2])

\* len(v) of a str or a dict
PyLen(v) == IF v.t = "dict" THEN Len(v.d) ELSE Len(v.s)

DictHas(items, k) == \E i \in 1..Len(items) : items[i][1] = k

\* dict.get(k, default)
DictGet(items, k, default) ==
    IF DictHas(items, k)
    THEN items[CHOOSE i \in 1..Len(items) : items[i][1] = k][2]
    ELSE default

\* The keys that occur in the modelled dicts, in the order in which Python
\* compares strings; sort_keys=True emits the items in this order.
KeyOrder ==
    <<"a", "b", "decision", "entities", "error", "inputs", "intent",
      "original_decision", "override_reason", "po_number", "reasoning",
      "requires_reasoning", "sender", "subject", "text">>

RECURSIVE SelectItems(_, _, _)
SelectItems(items, order, i) ==
    IF i > Len(order) THEN <<>>
    ELSE (IF DictHas(items, order[i])
          THEN <<(<<order[i], DictGet(items, order[i], PyNone)>>)>>
          ELSE <<>>) \o SelectItems(items, order, i + 1)

SortItems(items) == SelectItems(items, KeyOrder, 1)

\* json.dumps(v, sort_keys=sorted)
RECURSIVE JsonDumps(_, _)
RECURSIVE JsonItems(_, _, _)
JsonItems(items, i, sorted) ==
    IF i > Len(items) THEN ""
    ELSE (IF i > 1 THEN ", " ELSE "")
         \o "\"" \o items[i][1] \o "\": " \o JsonDumps(items[i][2], sorted)
         \o JsonItems(items, i + 1, sorted)
JsonDumps(v, sorted) ==
    CASE v.t = "str" -> "\"" \o v.s \o "\""
      [] v.t = "dict" ->
            "{" \o JsonItems(IF sorted THEN SortItems(v.d) ELSE v.d, 1, sorted)
            \o "}"
      [] OTHER -> v.s

(***************************************************************************)
(* CostOptimizer: tier selection, cache key, cache.                        *)
(***************************************************************************)
simple_tasks == {"extract_po_number", "parse_date", "extract_quantity"}
medium_tasks == {"classify_intent", "extract_entities", "format_response"}
complex_tasks == {"multi_step_reasoning", "decision_making", "coordination"}
never_cascade == {"extract_po_number", "parse_date"}

\* a slip: requires_reasoning is looked at before the medium task types
analyze_task_complexity_ReasoningFirst(task_type, context) ==
    IF task_type \in simple_tasks THEN SMALL
    ELSE IF task_type \in complex_tasks
            \/ Truthy(DictGet(context, "requires_reasoning", PyBool(FALSE)))
         THEN LARGE
    ELSE IF task_type \in medium_tasks
         THEN (IF PyLen(DictGet(context, "text", PyStr(""))) < TextThreshold
               THEN SMALL ELSE MEDIUM)
    ELSE MEDIUM

analyze_task_complexity(task_type, context) ==
    IF task_type \in simple_tasks THEN SMALL
    ELSE IF task_type \in medium_tasks
         THEN (IF PyLen(DictGet(context, "text", PyStr(""))) < TextThreshold
               THEN SMALL ELSE MEDIUM)
    ELSE IF task_type \in complex_tasks
            \/ Truthy(DictGet(context, "requires_reasoning", PyBool(FALSE)))
         THEN LARGE
    ELSE MEDIUM

\* hashlib.md5(...).hexdigest(): the digest is taken to be free of
\* collisions, so the text that is hashed stands for its digest.
Md5Hex(data) == data

\* a slip: the context is dumped in insertion order (no sort_keys)
_generate_cache_key_Unsorted(task_type, prompt, context) ==
    Md5Hex(task_type \o ":" \o prompt \o ":" \o JsonDumps(PyDict(context), FALSE))

_generate_cache_key(task_type, prompt, context) ==
    Md5Hex(task_type \o ":" \o prompt \o ":" \o JsonDumps(PyDict(context), TRUE))

\* self.cache is a dict: the sequence of its [k, v] entries in insertion order
CacheHas(c, k) == \E i \in 1..Len(c) : c[i].k = k
CacheGet(c, k) == c[CHOOSE i \in 1..Len(c) : c[i].k = k].v

\* a slip: every write adds an entry, also for a key that is present
DictSet_Append(c, k, v) == Append(c, [k |-> k, v |-> v])

\* self.cache[k] = v : a present key keeps its place, a new key goes last
DictSet(c, k, v) ==
    IF CacheHas(c, k)
    THEN [i \in 1..Len(c) |-> IF c[i].k = k THEN [k |-> k, v |-> v] ELSE c[i]]
    ELSE Append(c, [k |-> k, v |-> v])

\* oldest_key = next(iter(self.cache)); del self.cache[oldest_key]
EvictOldest(c) == Tail(c)

cache_response(c, task_type, prompt, context, response) ==
    LET cache_key == _generate_cache_key(task_type, prompt, context)
        c1 == DictSet(c, cache_key, response)
    IN  IF Len(c1) > CacheCapacity THEN EvictOldest(c1) ELSE c1

\* self.cache.get(key): found = FALSE is a missing key
CacheLookup(c, task_type, prompt, context) ==
    LET cache_key == _generate_cache_key(task_type, prompt, context)
    IN  IF CacheHas(c, cache_key)
        THEN [found |-> TRUE, value |-> CacheGet(c, cache_key)]
        ELSE [found |-> FALSE, value |-> ""]

\* a slip: a lookup that hits moves the entry to the end (LRU)
get_cached_response_Lru(c, st, task_type, prompt, context) ==
    LET r == CacheLookup(c, task_type, prompt, context)
        k == _generate_cache_key(task_type, prompt, context)
    IN  [cached |-> r,
         cache |-> IF r.found
                   THEN Append(SelectSeq(c, LAMBDA e : e.k # k),
                               [k |-> k, v |-> r.value])
                   ELSE c,
         stats |-> IF r.found
                   THEN [st EXCEPT !.cache_hits = @ + 1]
                   ELSE [st EXCEPT !.cache_misses = @ + 1]]

\* get_cached_response: the value returned (found = FALSE is None), and the
\* cache and the statistics after the lookup
get_cached_response(c, st, task_type, prompt, context) ==
    LET r == CacheLookup(c, task_type, prompt, context)
    IN  [cached |-> r,
         cache |-> c,
         stats |-> IF r.found
                   THEN [st EXCEPT !.cache_hits = @ + 1]
                   ELSE [st EXCEPT !.cache_misses = @ + 1]]

\* "if cached:" on an Optional[str]
CachedIsTrue(r) == r.found /\ r.value # ""

(***************************************************************************)
(* State.                                                                  *)
(***************************************************************************)
VARIABLES
    cache,          \* CostOptimizer.cache
    stats,          \* CostOptimizer.stats
    agents,         \* AgentOrchestrator.agents: status and active_tasks
    events,         \* ObservabilityLogger.events
    agent_metrics,  \* ObservabilityLogger.agent_metrics (a defaultdict)
    now,            \* the wall clock read by time.time() and datetime.now();
                    \* the runs modelled here fit into one reading of it
    pc,             \* where each coroutine stands
    ops,            \* operations started so far
    call,           \* the call_llm frame of each coroutine
    rq,             \* the process_email frame of each coroutine
    last_call,      \* history: the call_llm call that completed last
    outcomes,       \* history: <<operation, "return" or "raise">> of the
                    \* process_email calls that are over
    nput,           \* cache_response calls made by the FIFO driver
    nread,          \* get_cached_response calls made by the FIFO driver
    inp,            \* history: the arguments of the operation made last by
                    \* a driver of single operations
    out,            \* history: what that operation returned or raised (and,
                    \* for override_decision, what the one before it raised)
    logged,         \* history: every event appended to the ledger by such
                    \* a driver, in append order, never cut
    nlog            \* operations made by such a driver

vars == <<cache, stats, agents, events, agent_metrics, now, pc, ops, call,
          rq, last_call, outcomes, nput, nread, inp, out, logged, nlog>>

\* what the drivers of single operations record
aux == <<inp, out, logged, nlog>>

(***************************************************************************)
(* CostOptimizer.call_llm, cut at its two awaits.  A frame holds the       *)
(* locals of one call: its arguments, the tier chosen, the provider        *)
(* invocations it has made so far (history), what its SMALL attempt got    *)
(* (history), the reply of the provider it is about to resume with, and    *)
(* its result.                                                             *)
(***************************************************************************)
NoReply == [st |-> "none", response |-> "", cost |-> 0]
NoResult == [kind |-> "none", response |-> "", cost |-> 0]
NoArgs == [task_type |-> "", prompt |-> "", context |-> <<>>, force_tier |-> NoTier]
NoFrame == [args |-> NoArgs, tier |-> NoTier, invoked |-> <<>>,
            small |-> NoReply, reply |-> NoReply, result |-> NoResult]

Returned(response, cost) == [kind |-> "return", response |-> response, cost |-> cost]
Raised(message) == [kind |-> "raise", response |-> message, cost |-> 0]

\* a slip: a forced tier does not keep the cascade from being tried
CascadeEligible_IgnoresForce(a) == a.task_type \notin never_cascade

\* "if not force_tier and task_type not in [...]"
CascadeEligible(a) == a.force_tier = NoTier /\ a.task_type \notin never_cascade

\* lines 103-117/127: from the call to the first await (or to the cache hit)
call_llm_enter(c, st, a) ==
    LET look == get_cached_response(c, st, a.task_type, a.prompt, a.context)
        tier == IF a.force_tier # NoTier THEN a.force_tier
                ELSE analyze_task_complexity(a.task_type, a.context)
    IN  IF CachedIsTrue(look.cached)
        THEN [cache |-> look.cache, stats |-> look.stats, pc |-> "llm_ret",
              frame |-> [NoFrame EXCEPT !.args = a,
                            !.result = Returned(look.cached.value, 0)]]
        ELSE [cache |-> look.cache, stats |-> look.stats,
              pc |-> IF CascadeEligible(a) THEN "await_small" ELSE "await_tier",
              frame |-> [NoFrame EXCEPT !.args = a, !.tier = tier,
                            !.invoked = <<IF CascadeEligible(a) THEN SMALL ELSE tier>>]]

\* a slip: "len(response) >= 10"
Adequate_AtLeast(response) == Len(response) >= MinAdequateLen

\* "if len(response) > 10"
Adequate(response) == Len(response) > MinAdequateLen

\* a slip: the accepted SMALL response is counted and cached, but the
\* "return" is missing and the call goes on to the determined tier
call_llm_after_small_NoReturn(c, st, f) ==
    IF f.reply.st = "ok" /\ Len(f.reply.response) > MinAdequateLen
    THEN [cache |-> cache_response(c, f.args.task_type, f.args.prompt,
                                   f.args.context, f.reply.response),
          stats |-> [st EXCEPT !.calls_by_tier[SMALL] = @ + 1],
          pc |-> "await_tier",
          frame |-> [f EXCEPT !.reply = NoReply, !.small = f.reply,
                        !.invoked = Append(@, f.tier)]]
    ELSE [cache |-> c, stats |-> st, pc |-> "await_tier",
          frame |-> [f EXCEPT !.reply = NoReply, !.small = f.reply,
                        !.invoked = Append(@, f.tier)]]

\* a slip: no try/except around the SMALL attempt
call_llm_after_small_NoExcept(c, st, f) ==
    IF f.reply.st = "ok" /\ Len(f.reply.response) > MinAdequateLen
    THEN [cache |-> cache_response(c, f.args.task_type, f.args.prompt,
                                   f.args.context, f.reply.response),
          stats |-> [st EXCEPT !.calls_by_tier[SMALL] = @ + 1],
          pc |-> "llm_ret",
          frame |-> [f EXCEPT !.reply = NoReply, !.small = f.reply,
                        !.result = Returned(f.reply.response, f.reply.cost)]]
    ELSE IF f.reply.st = "err"
    THEN [cache |-> c, stats |-> st, pc |-> "llm_raise",
          frame |-> [f EXCEPT !.reply = NoReply, !.small = f.reply,
                        !.result = Raised(f.reply.response)]]
    ELSE [cache |-> c, stats |-> st, pc |-> "await_tier",
          frame |-> [f EXCEPT !.reply = NoReply, !.small = f.reply,
                        !.invoked = Append(@, f.tier)]]

\* lines 117-127: the SMALL attempt has come back
call_llm_after_small(c, st, f) ==
    IF f.reply.st = "ok" /\ Adequate(f.reply.response)
    THEN [cache |-> cache_response(c, f.args.task_type, f.args.prompt,
                                   f.args.context, f.reply.response),
          stats |-> [st EXCEPT !.calls_by_tier[SMALL] = @ + 1],
          pc |-> "llm_ret",
          frame |-> [f EXCEPT !.reply = NoReply, !.small = f.reply,
                        !.result = Returned(f.reply.response, f.reply.cost)]]
    ELSE [cache |-> c, stats |-> st, pc |-> "await_tier",
          frame |-> [f EXCEPT !.reply = NoReply, !.small = f.reply,
                        !.invoked = Append(@, f.tier)]]

\* a slip: a failure at the determined tier is retried at that tier
call_llm_after_tier_Retry(c, st, f) ==
    IF f.reply.st = "ok"
    THEN [cache |-> cache_response(c, f.args.task_type, f.args.prompt,
                                   f.args.context, f.reply.response),
          stats |-> [st EXCEPT !.calls_by_tier[f.tier] = @ + 1,
                               !.total_cost = @ + f.reply.cost],
          pc |-> "llm_ret",
          frame |-> [f EXCEPT !.reply = NoReply,
                        !.result = Returned(f.reply.response, f.reply.cost)]]
    ELSE [cache |-> c, stats |-> st, pc |-> "await_tier",
          frame |-> [f EXCEPT !.reply = NoReply,
                        !.invoked = Append(@, f.tier)]]

\* lines 127-134: the call at the determined tier has come back
call_llm_after_tier(c, st, f) ==
    IF f.reply.st = "ok"
    THEN [cache |-> cache_response(c, f.args.task_type, f.args.prompt,
                                   f.args.context, f.reply.response),
          stats |-> [st EXCEPT !.calls_by_tier[f.tier] = @ + 1,
                               !.total_cost = @ + f.reply.cost],
          pc |-> "llm_ret",
          frame |-> [f EXCEPT !.reply = NoReply,
                        !.result = Returned(f.reply.response, f.reply.cost)]]
    ELSE [cache |-> c, stats |-> st, pc |-> "llm_raise",
          frame |-> [f EXCEPT !.reply = NoReply,
                        !.result = Raised(f.reply.response)]]

call_llm_resume(c, st, f, at) ==
    IF at = "await_small" THEN call_llm_after_small(c, st, f)
    ELSE call_llm_after_tier(c, st, f)

\* history: the call that completed last
LastAfter(r) ==
    IF r.pc \in {"llm_ret", "llm_raise"}
    THEN [ok |-> r.pc = "llm_ret", args |-> r.frame.args,
          response |-> r.frame.result.response]
    ELSE last_call

(***************************************************************************)
(* The provider (_call_openai).  The repository ships a stand-in whose     *)
(* body is marked "Real OpenAI implementation would go here"; the          *)
(* optimizer is written against any provider that, given a tier and a      *)
(* prompt, answers with a text and a cost or raises.                       *)
(***************************************************************************)
\* texts of 0, 10 and 11 characters
Responses == {"", "ten chars!", "eleven char"}
ProviderError == "provider unavailable"

\* self.costs: the price of a call grows with the tier (the input rates
\* 0.0015, 0.003 and 0.03 per 1K tokens, in units of 0.0015)
costs == [t \in ModelTier |-> CASE t = SMALL -> 1 [] t = MEDIUM -> 2 [] OTHER -> 20]

_call_openai(tier) ==
    {[st |-> "ok", response |-> r, cost |-> costs[tier]] : r \in Responses}
    \cup {[st |-> "err", response |-> ProviderError, cost |-> 0]}

Awaiting(p) == pc[p] \in {"await_small", "await_tier"}

\* the awaited provider call completes; the coroutine is ready to resume
ProviderReply(p) ==
    /\ Awaiting(p)
    /\ call[p].reply.st = "none"
    /\ \E rep \in _call_openai(call[p].invoked[Len(call[p].invoked)]) :
         call' = [call EXCEPT ![p].reply = rep]
    /\ UNCHANGED <<cache, stats, agents, events, agent_metrics, now, pc, ops,
                   rq, last_call, outcomes, nput, nread, aux>>

(***************************************************************************)
(* Callers of call_llm (specification SpecLLM).                            *)
(***************************************************************************)
TaskTypes == {"parse_date", "decision_making"}
Prompts == {"p"}
Contexts == {<<>>}
ForceTiers == {NoTier, MEDIUM}
LLMArgs ==
    {[task_type |-> t, prompt |-> q, context |-> x, force_tier |-> f] :
        t \in TaskTypes, q \in Prompts, x \in Contexts, f \in ForceTiers}

CallLLM(p) ==
    /\ pc[p] = "idle"
    /\ ops < MaxOps
    /\ \E a \in LLMArgs :
         LET r == call_llm_enter(cache, stats, a)
         IN  /\ cache' = r.cache
             /\ stats' = r.stats
             /\ pc' = [pc EXCEPT ![p] = r.pc]
             /\ call' = [call EXCEPT ![p] = r.frame]
             /\ last_call' = LastAfter(r)
    /\ ops' = ops + 1
    /\ UNCHANGED <<agents, events, agent_metrics, now, rq, outcomes, nput, nread, aux>>

ResumeLLM(p) ==
    /\ Awaiting(p)
    /\ call[p].reply.st # "none"
    /\ LET r == call_llm_resume(cache, stats, call[p], pc[p])
       IN  /\ cache' = r.cache
           /\ stats' = r.stats
           /\ pc' = [pc EXCEPT ![p] = r.pc]
           /\ call' = [call EXCEPT ![p] = r.frame]
           /\ last_call' = LastAfter(r)
    /\ UNCHANGED <<agents, events, agent_metrics, now, ops, rq, outcomes, nput, nread, aux>>

\* the caller takes the result (or the exception) of its call
FinishLLM(p) ==
    /\ pc[p] \in {"llm_ret", "llm_raise"}
    /\ pc' = [pc EXCEPT ![p] = "idle"]
    /\ call' = [call EXCEPT ![p] = NoFrame]
    /\ UNCHANGED <<cache, stats, agents, events, agent_metrics, now, ops, rq,
                   last_call, outcomes, nput, nread, aux>>

(***************************************************************************)
(* ObservabilityLogger.                                                    *)
(***************************************************************************)
NewMetrics == [total_actions |-> 0, successful_actions |-> 0,
               failed_actions |-> 0, total_cost |-> 0, total_time |-> 0,
               overrides |-> 0]

\* self.agent_metrics[agent_name]: a missing agent reads as a fresh record
MetricsOf(am, agent_name) ==
    IF agent_name \in DOMAIN am THEN am[agent_name] ELSE NewMetrics

\* a slip: the update starts from a stale copy of the metrics, which loses
\* what the other agents have counted
MetricsSet_Stale(am, agent_name, m) ==
    [a \in {agent_name} |-> m]

MetricsSet(am, agent_name, m) ==
    [a \in DOMAIN am \cup {agent_name} |-> IF a = agent_name THEN m ELSE am[a]]

\* a slip: the cut keeps the oldest events
TruncateEvents_KeepOldest(ev) ==
    IF Len(ev) > EventCapacity
    THEN SubSeq(ev, 1, EventCapacity)
    ELSE ev

\* "if len(self.events) > 1000: self.events = self.events[-1000:]"
TruncateEvents(ev) ==
    IF Len(ev) > EventCapacity
    THEN SubSeq(ev, Len(ev) - EventCapacity + 1, Len(ev))
    ELSE ev

\* the event dict log_event builds (lines 36-45).  execution_id "" is None;
\* by is history, the operation that logged the event.
NewEvent(ev, agent_name, action, context, outcome, cost, duration_ms, execution_id, by) ==
    [timestamp |-> now,
     agent |-> agent_name,
     action |-> action,
     context |-> IF context.t = "dict"
                 THEN JsonDumps(context, FALSE) ELSE PyStrOf(context),
     outcome |-> outcome,
     cost |-> cost,
     duration_ms |-> duration_ms,
     execution_id |-> IF execution_id # "" THEN execution_id
                      ELSE "exec_" \o ToString(Len(ev)),
     by |-> by]

\* log_event: the event list and the metrics after the call, and the
\* exception it raised ("" when it returned).  json.dumps raises TypeError
\* while the event is being built, before anything is assigned.
log_event(ev, am, agent_name, action, context, outcome, cost, duration_ms, execution_id, by) ==
    IF context.t = "dict" /\ ~JsonSerializable(context)
    THEN [events |-> ev, agent_metrics |-> am, raised |-> "TypeError"]
    ELSE
    LET event == NewEvent(ev, agent_name, action, context, outcome, cost,
                          duration_ms, execution_id, by)
        m == MetricsOf(am, agent_name)
        m1 == [m EXCEPT !.total_actions = @ + 1,
                        !.successful_actions =
                            IF outcome = "success" THEN @ + 1 ELSE @,
                        !.failed_actions =
                            IF outcome = "success" THEN @ ELSE @ + 1,
                        !.total_cost = @ + cost,
                        !.total_time = @ + duration_ms]
    IN  [events |-> TruncateEvents(Append(ev, event)),
         agent_metrics |-> MetricsSet(am, agent_name, m1),
         raised |-> ""]

\* a slip: log_decision does not pass the execution_id on
log_decision_NoId(ev, am, agent_name, decision, reasoning, inputs, execution_id, by) ==
    log_event(ev, am, agent_name, "decision: " \o decision,
              PyDict(<< <<"reasoning", PyStr(reasoning)>>,
                        <<"inputs", inputs>>,
                        <<"decision", PyStr(decision)>> >>),
              "success", 0, 0, "", by)

log_decision(ev, am, agent_name, decision, reasoning, inputs, execution_id, by) ==
    log_event(ev, am, agent_name, "decision: " \o decision,
              PyDict(<< <<"reasoning", PyStr(reasoning)>>,
                        <<"inputs", inputs>>,
                        <<"decision", PyStr(decision)>> >>),
              "success", 0, 0, execution_id, by)

\* log_override: the override counter first, then the event
log_override(ev, am, agent_name, original_decision, override_reason, by) ==
    LET m == MetricsOf(am, agent_name)
        am1 == MetricsSet(am, agent_name, [m EXCEPT !.overrides = @ + 1])
    IN  log_event(ev, am1, agent_name, "override",
                  PyDict(<< <<"original_decision", original_decision>>,
                            <<"override_reason", override_reason>> >>),
                  "overridden", 0, 0, "", by)

\* a / b of two numbers as Python divides them, kept as a fraction (the
\* rounding of the floating-point quotient is not modelled)
PyDiv(a, b) == [num |-> a, den |-> b]
\* the literal 0 of "(...) if total > 0 else 0"
PyZero == [num |-> 0, den |-> 1]

\* a slip: the rates are fractions of 1, not percentages
get_agent_metrics_Fraction(am, agent_name) ==
    IF agent_name \notin DOMAIN am THEN [found |-> FALSE]
    ELSE
    LET metrics == am[agent_name]
        total == metrics.total_actions
    IN  [found |-> TRUE,
         agent |-> agent_name,
         total_actions |-> total,
         success_rate |-> IF total > 0
                          THEN PyDiv(metrics.successful_actions, total)
                          ELSE PyZero,
         failure_rate |-> IF total > 0
                          THEN PyDiv(metrics.failed_actions, total)
                          ELSE PyZero,
         avg_response_time_ms |-> IF total > 0
                                  THEN PyDiv(metrics.total_time, total)
                                  ELSE PyZero,
         total_cost |-> metrics.total_cost,
         overrides |-> metrics.overrides,
         override_rate |-> IF total > 0
                           THEN PyDiv(metrics.overrides * 100, total)
                           ELSE PyZero]

\* get_agent_metrics: found = FALSE is the empty dict of an agent without
\* metrics.  x / total * 100 is kept as the fraction (x * 100) / total;
\* round(total_cost, 4) leaves the whole-numbered costs of the model as
\* they are.
get_agent_metrics(am, agent_name) ==
    IF agent_name \notin DOMAIN am THEN [found |-> FALSE]
    ELSE
    LET metrics == am[agent_name]
        total == metrics.total_actions
    IN  [found |-> TRUE,
         agent |-> agent_name,
         total_actions |-> total,
         success_rate |-> IF total > 0
                          THEN PyDiv(metrics.successful_actions * 100, total)
                          ELSE PyZero,
         failure_rate |-> IF total > 0
                          THEN PyDiv(metrics.failed_actions * 100, total)
                          ELSE PyZero,
         avg_response_time_ms |-> IF total > 0
                                  THEN PyDiv(metrics.total_time, total)
                                  ELSE PyZero,
         total_cost |-> metrics.total_cost,
         overrides |-> metrics.overrides,
         override_rate |-> IF total > 0
                           THEN PyDiv(metrics.overrides * 100, total)
                           ELSE PyZero]

\* "sum(m[field] for m in self.agent_metrics.values())" over the agents in S
RECURSIVE SumMetric(_, _, _)
SumMetric(am, S, field) ==
    IF S = {} THEN 0
    ELSE LET a == CHOOSE x \in S : TRUE
         IN  am[a][field] + SumMetric(am, S \ {a}, field)

\* "total_seconds() < 3600"
HourSeconds == 3600

\* get_metrics: the counts are taken from the event list as it is now, the
\* cost from the counters of the agents.  round(total_cost, 4) leaves the
\* whole-numbered costs of the model as they are; the clock counts seconds.
get_metrics(ev, am) ==
    LET total_events == Len(ev)
        successful_events ==
            Cardinality({i \in 1..Len(ev) : ev[i].outcome = "success"})
        total_cost == SumMetric(am, DOMAIN am, "total_cost")
    IN  [total_processed |-> total_events,
         success_rate |-> IF total_events > 0
                          THEN PyDiv(successful_events * 100, total_events)
                          ELSE PyZero,
         total_cost |-> total_cost,
         agent_count |-> Cardinality(DOMAIN am),
         events_last_hour |->
            Cardinality({i \in 1..Len(ev) : now - ev[i].timestamp < HourSeconds})]

\* s[:n]
PySliceTo(s, n) ==
    IF n >= 0 THEN SubSeq(s, 1, IF n < Len(s) THEN n ELSE Len(s))
    ELSE SubSeq(s, 1, IF Len(s) + n > 0 THEN Len(s) + n ELSE 0)

\* sorted(events, key=timestamp, reverse=True): newest first, events of one
\* timestamp in the order they had (the sort is stable)
RECURSIVE SortNewestFirst(_)
SortNewestFirst(ev) ==
    IF ev = <<>> THEN <<>>
    ELSE LET rest == SortNewestFirst(SubSeq(ev, 1, Len(ev) - 1))
             e == ev[Len(ev)]
             ahead == Cardinality({i \in 1..Len(rest) :
                                      rest[i].timestamp >= e.timestamp})
         IN  SubSeq(rest, 1, ahead) \o <<e>> \o SubSeq(rest, ahead + 1, Len(rest))

\* a slip: the sort is not reversed
get_timeline_OldestFirst(ev, limit, agent_filter) ==
    LET kept == IF agent_filter # ""
                THEN SelectSeq(ev, LAMBDA e : e.agent = agent_filter)
                ELSE ev
        newest == SortNewestFirst(kept)
    IN  PySliceTo([i \in 1..Len(newest) |-> newest[Len(newest) + 1 - i]], limit)

\* get_timeline: agent_filter "" is None (or the empty string, which
\* "if agent_filter:" takes for None as well)
get_timeline(ev, limit, agent_filter) ==
    LET kept == IF agent_filter # ""
                THEN SelectSeq(ev, LAMBDA e : e.agent = agent_filter)
                ELSE ev
    IN  PySliceTo(SortNewestFirst(kept), limit)

(***************************************************************************)
(* EmailParser.  An e-mail is given by its sender, its subject, the set of *)
(* keywords of intent_keywords that occur in its lower-cased text (what    *)
(* the "keyword in text" tests see), the PO number po_pattern finds        *)
(* (PyNone when it finds none) and hash(sender + subject) % 10000.         *)
(***************************************************************************)
intent_keywords ==
    << [intent |-> "delivery_delay",
        keywords |-> {"delay", "delayed", "late", "postpone", "reschedule",
                      "behind schedule"}],
       [intent |-> "price_change",
        keywords |-> {"price", "pricing", "cost", "quote", "increase",
                      "decrease", "change"}],
       [intent |-> "quantity_change",
        keywords |-> {"quantity", "qty", "units", "increase", "decrease",
                      "revise"}],
       [intent |-> "acknowledgement_request",
        keywords |-> {"acknowledge", "confirm", "receipt", "received",
                      "please confirm"}],
       [intent |-> "quality_issue",
        keywords |-> {"defect", "quality", "damage", "issue", "problem",
                      "reject"}],
       [intent |-> "general_inquiry",
        keywords |-> {"question", "inquiry", "ask", "help", "information"}] >>

Score(email, i) == Cardinality(intent_keywords[i].keywords \cap email.words)

\* classify_intent(...)["intent"]: max() keeps the first of the best scores
classify_intent(email) ==
    LET n == Len(intent_keywords)
        best == CHOOSE i \in 1..n :
                    /\ \A j \in 1..n : Score(email, j) <= Score(email, i)
                    /\ \A j \in 1..(i - 1) : Score(email, j) < Score(email, i)
    IN  IF \A i \in 1..n : Score(email, i) = 0 THEN "general_inquiry"
        ELSE intent_keywords[best].intent

\* extract_entities(...): the entity the workflows read
extract_entities(email) == [po_number |-> email.po_number]

Emails ==
    { [sender |-> "supplier@acme.com", subject |-> "PO #12345 Delivery Update",
       words |-> {"delay", "delayed", "quantity", "units"},
       po_number |-> PyStr("12345"), hash |-> 4242],
      [sender |-> "vendor@supplychain.com",
       subject |-> "Price Change Notification - Order #67890",
       words |-> {"price", "change", "increase", "confirm"},
       po_number |-> PyStr("67890"), hash |-> 17],
      [sender |-> "buyer@corp.com", subject |-> "Hello",
       words |-> {}, po_number |-> PyNone, hash |-> 4242] }

(***************************************************************************)
(* AgentOrchestrator.                                                      *)
(***************************************************************************)
AgentIds == {"inbox_agent", "po_tracker", "change_manager", "routing_agent"}

\* a slip: "-= 1" on entry
IncTasks_Down(n) == n - 1

\* self.agents[a]["active_tasks"] += 1
IncTasks(n) == n + 1
\* max(0, self.agents[a]["active_tasks"] - 1)
DecTasks(n) == IF n - 1 > 0 THEN n - 1 ELSE 0

MarkActive(ag, a) ==
    [ag EXCEPT ![a] = [status |-> "active",
                       active_tasks |-> IncTasks(@.active_tasks)]]
\* a slip: the status is reset but the counter is not decremented
MarkIdle_StatusOnly(ag, a) == [ag EXCEPT ![a].status = "idle"]

MarkIdle(ag, a) ==
    [ag EXCEPT ![a] = [status |-> "idle",
                       active_tasks |-> DecTasks(@.active_tasks)]]

routing_rules ==
    [i \in {"delivery_delay", "price_change", "quantity_change",
            "acknowledgement_request", "quality_issue", "general_inquiry"} |->
        CASE i \in {"delivery_delay", "acknowledgement_request"} -> "po_tracker"
          [] i = "general_inquiry" -> "inbox_agent"
          [] OTHER -> "change_manager"]

\* a slip: an intent without a rule goes to the change manager
_route_email_OtherDefault(intent) ==
    IF intent \in DOMAIN routing_rules THEN routing_rules[intent]
    ELSE "change_manager"

_route_email(intent) ==
    IF intent \in DOMAIN routing_rules THEN routing_rules[intent]
    ELSE "inbox_agent"

\* str(v) inside an f-string
PyFormat(v) == IF v.t = "null" THEN "None" ELSE v.s
\* repr of the entities dict inside an f-string
PyReprEntities(po) ==
    "{'po_number': " \o (IF po.t = "null" THEN "None" ELSE "'" \o po.s \o "'")
    \o "}"

IntentDict(intent) == PyDict(<< <<"intent", PyStr(intent)>> >>)
EntitiesDict(po) == PyDict(<< <<"po_number", po>> >>)

\* a slip: both stages ask with the task type of po_tracker
StageCall_OneTaskType(agent_name, intent, po, sender) ==
    [task_type |-> "decision_making",
     prompt |-> IF agent_name = "po_tracker"
                THEN "PO " \o PyFormat(po) \o " has delivery update. Intent: "
                     \o intent \o ". Dates: []"
                ELSE "Analyze impact of " \o intent \o " for supplier "
                     \o sender \o ". Entities: " \o PyReprEntities(po),
     context |-> << <<"intent", IntentDict(intent)>>,
                    <<"entities", EntitiesDict(po)>> >>,
     force_tier |-> NoTier]

\* the call_llm call of the stage workflow of agent_name
StageCall(agent_name, intent, po, sender) ==
    [task_type |-> IF agent_name = "po_tracker" THEN "decision_making"
                   ELSE "multi_step_reasoning",
     prompt |-> IF agent_name = "po_tracker"
                THEN "PO " \o PyFormat(po) \o " has delivery update. Intent: "
                     \o intent \o ". Dates: []"
                ELSE "Analyze impact of " \o intent \o " for supplier "
                     \o sender \o ". Entities: " \o PyReprEntities(po),
     context |-> << <<"intent", IntentDict(intent)>>,
                    <<"entities", EntitiesDict(po)>> >>,
     force_tier |-> NoTier]

\* a slip: po_tracker has no action of its own for acknowledgement_request
StageAction_NoAck(agent_name, intent) ==
    IF agent_name = "po_tracker"
    THEN (IF intent = "delivery_delay" THEN "escalate_if_critical"
          ELSE "update_erp")
    ELSE (IF intent \in {"price_change", "quantity_change"}
          THEN "requires_approval" ELSE "log_change")

\* the action a stage workflow decides on
StageAction(agent_name, intent) ==
    IF agent_name = "po_tracker"
    THEN (IF intent = "delivery_delay" THEN "escalate_if_critical"
          ELSE IF intent = "acknowledgement_request" THEN "send_acknowledgement"
          ELSE "update_erp")
    ELSE (IF intent \in {"price_change", "quantity_change"}
          THEN "requires_approval" ELSE "log_change")

StageContext(agent_name, intent, po, sender) ==
    IF agent_name = "po_tracker"
    THEN PyDict(<< <<"po_number", po>>, <<"sender", PyStr(sender)>> >>)
    ELSE PyDict(<< <<"intent", PyStr(intent)>>, <<"sender", PyStr(sender)>> >>)

NoOutcome == [kind |-> "none", intent |-> "", routed_agent |-> "",
              action |-> "", cost |-> 0, error |-> "", execution_id |-> ""]
NoRequest == [op |-> 0, execution_id |-> "", intent |-> "", routed |-> "",
              po_number |-> PyNone, sender |-> "", result |-> NoOutcome]

\* a slip: the inbox agent is given a stage of its own
StagedAgents_WithInbox == {"po_tracker", "change_manager", "inbox_agent"}

StagedAgents == {"po_tracker", "change_manager"}

\* process_email lines 105-122: the workflow has returned wf = [action, cost]
process_email_return(ag, q, wf) ==
    [agents |-> MarkIdle(MarkIdle(ag, "inbox_agent"), "routing_agent"),
     result |-> [kind |-> "return", intent |-> q.intent,
                 routed_agent |-> q.routed, action |-> wf.action,
                 cost |-> wf.cost, error |-> "",
                 execution_id |-> q.execution_id]]

\* the rest of a stage workflow once call_llm has returned (lines 185-204,
\* 225-239): the action, its event, the agent idle again, the dict returned
workflow_return(ag, ev, am, q, llm) ==
    LET action == StageAction(q.routed, q.intent)
        L == log_event(ev, am, q.routed, action,
                       StageContext(q.routed, q.intent, q.po_number, q.sender),
                       "success", llm.cost, 0, q.execution_id, q.op)
    IN  [agents |-> MarkIdle(ag, q.routed), events |-> L.events,
         agent_metrics |-> L.agent_metrics,
         wf |-> [action |-> action, cost |-> llm.cost]]

\* a stage workflow followed by the rest of process_email
stage_return(ag, ev, am, q, llm) ==
    LET w == workflow_return(ag, ev, am, q, llm)
        fin == process_email_return(w.agents, q, w.wf)
    IN  [agents |-> fin.agents, events |-> w.events,
         agent_metrics |-> w.agent_metrics, result |-> fin.result]

\* a slip: the handler re-raises without logging
process_email_except_Silent(ag, ev, am, q, message) ==
    [agents |-> ag, events |-> ev, agent_metrics |-> am,
     result |-> [NoOutcome EXCEPT !.kind = "raise", !.error = message,
                                  !.execution_id = q.execution_id]]

\* process_email lines 124-132: "except Exception as e: log, raise"
process_email_except(ag, ev, am, q, message) ==
    LET L == log_event(ev, am, "orchestrator", "process_email",
                       PyDict(<< <<"error", PyStr(message)>> >>),
                       "failure", 0, 0, q.execution_id, q.op)
    IN  [agents |-> ag, events |-> L.events,
         agent_metrics |-> L.agent_metrics,
         result |-> [NoOutcome EXCEPT !.kind = "raise", !.error = message,
                                      !.execution_id = q.execution_id]]

\* what process_email does once the call_llm call of its stage is over
after_call(ag, ev, am, q, llm) ==
    IF llm.kind = "raise"
    THEN process_email_except(ag, ev, am, q, llm.response)
    ELSE stage_return(ag, ev, am, q, llm)

\* the frame of a call_llm call is gone once the call is over
FrameLeft(r) == IF r.pc \in {"llm_ret", "llm_raise"} THEN NoFrame ELSE r.frame

OutcomePc(result) == IF result.kind = "raise" THEN "raised" ELSE "returned"

\* process_email from its call to its first suspension (or to its end)
ProcessEmail(p) ==
    /\ pc[p] = "idle"
    /\ ops < MaxRequests
    /\ ops' = ops + 1
    /\ \E email \in Emails :
         LET execution_id == "exec_" \o ToString(now) \o "_" \o ToString(email.hash)
             intent == classify_intent(email)
             po == extract_entities(email).po_number
             routed == _route_email(intent)
             q == [op |-> ops + 1, execution_id |-> execution_id,
                   intent |-> intent, routed |-> routed, po_number |-> po,
                   sender |-> email.sender, result |-> NoOutcome]
             ag1 == MarkActive(agents, "inbox_agent")
             L1 == log_event(events, agent_metrics, "inbox_agent", "parse_email",
                             PyDict(<< <<"sender", PyStr(email.sender)>>,
                                       <<"subject", PyStr(email.subject)>> >>),
                             "success", 0, (now - now) * 1000, execution_id,
                             q.op)
             ag2 == MarkActive(ag1, "routing_agent")
             L2 == log_decision(L1.events, L1.agent_metrics, "routing_agent",
                                "route_to_" \o routed,
                                "Intent: " \o intent \o ", PO: " \o PyFormat(po),
                                PyDict(<< <<"intent", IntentDict(intent)>>,
                                          <<"entities", EntitiesDict(po)>> >>),
                                execution_id, q.op)
         IN  IF routed \in StagedAgents
             THEN LET ag3 == MarkActive(ag2, routed)
                      r == call_llm_enter(cache, stats,
                               StageCall(routed, intent, po, email.sender))
                      fin == after_call(ag3, L2.events, L2.agent_metrics, q,
                                        r.frame.result)
                  IN  /\ cache' = r.cache
                      /\ stats' = r.stats
                      /\ call' = [call EXCEPT ![p] = FrameLeft(r)]
                      /\ last_call' = LastAfter(r)
                      /\ IF r.pc = "llm_ret"
                         THEN /\ agents' = fin.agents
                              /\ events' = fin.events
                              /\ agent_metrics' = fin.agent_metrics
                              /\ rq' = [rq EXCEPT ![p] = [q EXCEPT !.result = fin.result]]
                              /\ pc' = [pc EXCEPT ![p] = OutcomePc(fin.result)]
                              /\ outcomes' = outcomes \cup {<<q.op, fin.result.kind>>}
                         ELSE /\ agents' = ag3
                              /\ events' = L2.events
                              /\ agent_metrics' = L2.agent_metrics
                              /\ rq' = [rq EXCEPT ![p] = q]
                              /\ pc' = [pc EXCEPT ![p] = r.pc]
                              /\ UNCHANGED outcomes
             ELSE LET fin == process_email_return(ag2, q,
                                 [action |-> "logged", cost |-> 0])
                  IN  /\ agents' = fin.agents
                      /\ events' = L2.events
                      /\ agent_metrics' = L2.agent_metrics
                      /\ rq' = [rq EXCEPT ![p] = [q EXCEPT !.result = fin.result]]
                      /\ pc' = [pc EXCEPT ![p] = "returned"]
                      /\ outcomes' = outcomes \cup {<<q.op, fin.result.kind>>}
                      /\ UNCHANGED <<cache, stats, call, last_call>>
    /\ UNCHANGED <<now, nput, nread, aux>>

\* process_email resumes with the reply of the provider and runs to its next
\* suspension or to its end
ResumeRequest(p) ==
    /\ Awaiting(p)
    /\ call[p].reply.st # "none"
    /\ LET r == call_llm_resume(cache, stats, call[p], pc[p])
           fin == after_call(agents, events, agent_metrics, rq[p],
                             r.frame.result)
       IN  /\ cache' = r.cache
           /\ stats' = r.stats
           /\ call' = [call EXCEPT ![p] = FrameLeft(r)]
           /\ last_call' = LastAfter(r)
           /\ IF r.pc \in {"llm_ret", "llm_raise"}
              THEN /\ agents' = fin.agents
                   /\ events' = fin.events
                   /\ agent_metrics' = fin.agent_metrics
                   /\ rq' = [rq EXCEPT ![p].result = fin.result]
                   /\ pc' = [pc EXCEPT ![p] = OutcomePc(fin.result)]
                   /\ outcomes' = outcomes \cup {<<rq[p].op, fin.result.kind>>}
              ELSE /\ pc' = [pc EXCEPT ![p] = r.pc]
                   /\ UNCHANGED <<agents, events, agent_metrics, rq, outcomes>>
    /\ UNCHANGED <<now, ops, nput, nread, aux>>

\* the caller of process_email takes the result or the exception
RequestDone(p) ==
    /\ pc[p] \in {"returned", "raised"}
    /\ pc' = [pc EXCEPT ![p] = "idle"]
    /\ rq' = [rq EXCEPT ![p] = NoRequest]
    /\ UNCHANGED <<call, cache, stats, agents, events, agent_metrics, now, ops,
                   last_call, outcomes, nput, nread, aux>>

\* a slip: the override is logged before the registry is looked at
override_decision_LogFirst(ag, ev, am, agent_id, decision, reason, by) ==
    LET L == log_override(ev, am, agent_id, decision, reason, by)
    IN  IF agent_id \in DOMAIN ag
        THEN [events |-> L.events, agent_metrics |-> L.agent_metrics,
              raised |-> L.raised, error |-> "",
              status |-> IF L.raised = "" THEN "overridden" ELSE "",
              agent |-> IF L.raised = "" THEN agent_id ELSE ""]
        ELSE [events |-> L.events, agent_metrics |-> L.agent_metrics,
              raised |-> "ValueError",
              error |-> "Agent " \o agent_id \o " not found",
              status |-> "", agent |-> ""]

\* override_decision: the ledger after the call, what it returned (status,
\* agent) and the exception it raised ("" when it returned) with its message
override_decision(ag, ev, am, agent_id, decision, reason, by) ==
    IF agent_id \in DOMAIN ag
    THEN LET L == log_override(ev, am, agent_id, decision, reason, by)
         IN  [events |-> L.events, agent_metrics |-> L.agent_metrics,
              raised |-> L.raised, error |-> "",
              status |-> IF L.raised = "" THEN "overridden" ELSE "",
              agent |-> IF L.raised = "" THEN agent_id ELSE ""]
    ELSE [events |-> ev, agent_metrics |-> am,
          raised |-> "ValueError",
          error |-> "Agent " \o agent_id \o " not found",
          status |-> "", agent |-> ""]

\* no operation of a single-operation driver yet
NoOp == [op |-> "none"]

(***************************************************************************)
(* Initial state: the objects as their constructors leave them.            *)
(***************************************************************************)
Init ==
    /\ cache = <<>>
    /\ stats = [cache_hits |-> 0, cache_misses |-> 0, total_cost |-> 0,
                calls_by_tier |-> [t \in ModelTier |-> 0]]
    /\ agents = [a \in AgentIds |-> [status |-> "idle", active_tasks |-> 0]]
    /\ events = <<>>
    /\ agent_metrics = <<>>
    /\ now = 0
    /\ pc = [p \in Procs |-> "idle"]
    /\ ops = 0
    /\ call = [p \in Procs |-> NoFrame]
    /\ rq = [p \in Procs |-> NoRequest]
    /\ last_call = [ok |-> FALSE, args |-> NoArgs, response |-> ""]
    /\ outcomes = {}
    /\ nput = 0
    /\ nread = 0
    /\ inp = NoOp
    /\ out = NoOp
    /\ logged = <<>>
    /\ nlog = 0

Next ==
    \E p \in Procs : ProcessEmail(p) \/ ProviderReply(p)
                       \/ ResumeRequest(p) \/ RequestDone(p)

Spec == Init /\ [][Next]_vars

(***************************************************************************)
(* A driver of the cache alone (specification SpecFifo): cache_response    *)
(* with one fresh key after the other, and get_cached_response in between. *)
(***************************************************************************)
FifoTask == "format_response"
FifoPrompt(i) == "prompt " \o ToString(i)
FifoKey(i) == _generate_cache_key(FifoTask, FifoPrompt(i), <<>>)
MaxPuts == CacheCapacity + ExtraPuts

FifoPut ==
    /\ nput < MaxPuts
    /\ nput' = nput + 1
    /\ cache' = cache_response(cache, FifoTask, FifoPrompt(nput + 1), <<>>,
                               "Response " \o ToString(nput + 1))
    /\ UNCHANGED <<stats, agents, events, agent_metrics, now, pc, ops, call,
                   rq, last_call, outcomes, nread, aux>>

\* a lookup of the oldest key inserted, of the newest, or of one never inserted
FifoGet ==
    /\ nread < MaxReads
    /\ nread' = nread + 1
    /\ \E i \in {1, nput, 0} :
         LET r == get_cached_response(cache, stats, FifoTask, FifoPrompt(i), <<>>)
         IN  cache' = r.cache /\ stats' = r.stats
    /\ UNCHANGED <<agents, events, agent_metrics, now, pc, ops, call, rq,
                   last_call, outcomes, nput, aux>>

NextFifo == FifoPut \/ FifoGet

SpecFifo == Init /\ [][NextFifo]_vars

NextLLM ==
    \E p \in Procs : CallLLM(p) \/ ProviderReply(p) \/ ResumeLLM(p) \/ FinishLLM(p)

SpecLLM == Init /\ [][NextLLM]_vars

(***************************************************************************)
(* Properties of call_llm (specification SpecLLM).                         *)
(***************************************************************************)
\* coroutine p starts a call_llm call in this step
Starts(p) == pc[p] = "idle" /\ pc'[p] # "idle"
\* coroutine p resumes from a provider call in this step
Resumes(p) == Awaiting(p) /\ call[p].reply.st # "none" /\ call'[p].reply.st = "none"

OtherTiersKept(t) ==
    \A u \in ModelTier \ {t} : stats'.calls_by_tier[u] = stats.calls_by_tier[u]

NowCached(p) ==
    CacheLookup(cache', call[p].args.task_type, call[p].args.prompt,
                call[p].args.context) =
        [found |-> TRUE, value |-> call[p].reply.response]

\* C1: a call_llm call that comes right after a successful call with the
\* same arguments returns that call's response at cost 0, invokes no
\* provider and leaves total_cost and calls_by_tier as they were.
C1_SecondCallIsFree ==
    [][\A p \in Procs :
         (Starts(p) /\ last_call.ok /\ call'[p].args = last_call.args)
         => /\ pc'[p] = "llm_ret"
            /\ call'[p].result = Returned(last_call.response, 0)
            /\ call'[p].invoked = <<>>
            /\ stats'.total_cost = stats.total_cost
            /\ stats'.calls_by_tier = stats.calls_by_tier]_vars

\* C2: when the SMALL attempt of a cascade comes back with more than 10
\* characters, the call counts one call under SMALL and none elsewhere,
\* caches the response, returns it with its cost and has invoked the
\* provider at SMALL only.
C2_CascadeAccept ==
    [][\A p \in Procs :
         (Resumes(p) /\ pc[p] = "await_small" /\ call[p].reply.st = "ok"
          /\ Len(call[p].reply.response) > 10)
         => /\ pc'[p] = "llm_ret"
            /\ stats'.calls_by_tier[SMALL] = stats.calls_by_tier[SMALL] + 1
            /\ OtherTiersKept(SMALL)
            /\ NowCached(p)
            /\ call'[p].result =
                   Returned(call[p].reply.response, call[p].reply.cost)
            /\ call'[p].invoked = <<SMALL>>]_vars

C2_Witness ==
    \E p \in Procs :
        /\ pc[p] = "llm_ret"
        /\ call[p].args.force_tier = NoTier
        /\ call[p].args.task_type \notin never_cascade
        /\ call[p].tier = LARGE
        /\ call[p].invoked = <<SMALL>>
        /\ call[p].result.kind = "return"
        /\ Len(call[p].result.response) > 10
        /\ stats.calls_by_tier[SMALL] > 0

\* the tier call_llm determines for the call of frame f
SelectedTier(f) ==
    IF f.args.force_tier # NoTier THEN f.args.force_tier
    ELSE analyze_task_complexity(f.args.task_type, f.args.context)

\* C3: a SMALL attempt that comes back with 10 characters or fewer changes
\* neither the statistics nor the cache, and the provider is invoked at the
\* selected tier; when that call comes back, it is counted under the
\* selected tier, its cost is added to total_cost, and its response is
\* cached and returned.
C3_CascadeReject ==
    [][\A p \in Procs :
         /\ (Resumes(p) /\ pc[p] = "await_small" /\ call[p].reply.st = "ok"
             /\ Len(call[p].reply.response) <= 10)
            => /\ pc'[p] = "await_tier"
               /\ stats' = stats
               /\ cache' = cache
               /\ call'[p].invoked = <<SMALL, SelectedTier(call[p])>>
         /\ (Resumes(p) /\ pc[p] = "await_tier" /\ call[p].reply.st = "ok"
             /\ call[p].small.st = "ok")
            => /\ pc'[p] = "llm_ret"
               /\ stats'.calls_by_tier[SelectedTier(call[p])] =
                      stats.calls_by_tier[SelectedTier(call[p])] + 1
               /\ OtherTiersKept(SelectedTier(call[p]))
               /\ stats'.total_cost = stats.total_cost + call[p].reply.cost
               /\ NowCached(p)
               /\ call'[p].result =
                      Returned(call[p].reply.response, call[p].reply.cost)
               /\ call'[p].invoked = call[p].invoked]_vars

C3_Witness ==
    \E p \in Procs :
        /\ pc[p] = "llm_ret"
        /\ call[p].small.st = "ok"
        /\ Len(call[p].small.response) = 10
        /\ call[p].invoked = <<SMALL, LARGE>>
        /\ call[p].result.kind = "return"
        /\ call[p].result.cost = costs[LARGE]
        /\ stats.calls_by_tier[LARGE] > 0
        /\ stats.total_cost >= costs[LARGE]

\* C4: a SMALL attempt that raises does not end the call: the provider is
\* invoked at the selected tier, and the call returns what that invocation
\* returns or raises what it raises.
C4_CascadeFailureSwallowed ==
    [][\A p \in Procs :
         /\ (Resumes(p) /\ pc[p] = "await_small" /\ call[p].reply.st = "err")
            => /\ pc'[p] = "await_tier"
               /\ call'[p].result.kind = "none"
               /\ call'[p].invoked = <<SMALL, SelectedTier(call[p])>>
         /\ (Resumes(p) /\ pc[p] = "await_tier" /\ call[p].small.st = "err")
            => IF call[p].reply.st = "ok"
               THEN /\ pc'[p] = "llm_ret"
                    /\ call'[p].result =
                           Returned(call[p].reply.response, call[p].reply.cost)
               ELSE /\ pc'[p] = "llm_raise"
                    /\ call'[p].result = Raised(call[p].reply.response)]_vars

C4_Witness ==
    \E p \in Procs :
        /\ pc[p] = "llm_ret"
        /\ call[p].small.st = "err"
        /\ call[p].invoked = <<SMALL, LARGE>>
        /\ call[p].result.kind = "return"

\* C5: when the invocation at the selected tier raises, the call raises that
\* error and invokes the provider no more.
C5_TierFailurePropagates ==
    [][\A p \in Procs :
         /\ (Resumes(p) /\ pc[p] = "await_tier" /\ call[p].reply.st = "err")
            => /\ pc'[p] = "llm_raise"
               /\ call'[p].result = Raised(call[p].reply.response)
               /\ call'[p].invoked = call[p].invoked
         /\ (pc[p] = "llm_raise" /\ pc'[p] # "idle")
            => /\ pc'[p] = "llm_raise"
               /\ call'[p] = call[p]]_vars

C5_Witness ==
    \E p \in Procs :
        /\ pc[p] = "llm_raise"
        /\ call[p].result = Raised(ProviderError)
        /\ call[p].invoked[Len(call[p].invoked)] = call[p].tier

(***************************************************************************)
(* Properties of process_email (specification Spec).                       *)
(***************************************************************************)
InFlight(p) == Awaiting(p)

AllRestored ==
    \A a \in AgentIds : agents[a] = [status |-> "idle", active_tasks |-> 0]

\* C6: when a process_email call has raised and no other call is in flight,
\* every agent is idle with no active task.
C6_RegistryRestoredOnRaise ==
    ((\E p \in Procs : pc[p] = "raised") /\ (\A p \in Procs : ~InFlight(p)))
    => AllRestored

\* the events the operation op has logged as a failure of the orchestrator
FailureEvents(op) ==
    {i \in 1..Len(events) :
        /\ events[i].by = op
        /\ events[i].agent = "orchestrator"
        /\ events[i].outcome = "failure"}

\* C7: a process_email call that has raised has logged exactly one failure
\* event of the orchestrator, with the error message and its execution_id,
\* as its last event; it raises the error of the provider and returns no
\* result.  A call that has returned has logged no failure event.
C7_FailureLoggedThenRaised ==
    \A p \in Procs :
        /\ pc[p] = "raised"
           => /\ Cardinality(FailureEvents(rq[p].op)) = 1
              /\ \A i \in FailureEvents(rq[p].op) :
                    /\ events[i].execution_id = rq[p].execution_id
                    /\ events[i].action = "process_email"
                    /\ events[i].context =
                           "{\"error\": \"" \o rq[p].result.error \o "\"}"
                    /\ \A j \in 1..Len(events) :
                           events[j].by = rq[p].op => j <= i
              /\ rq[p].result.kind = "raise"
              /\ rq[p].result.error = ProviderError
              /\ rq[p].result.routed_agent = ""
              /\ rq[p].result.action = ""
              /\ <<rq[p].op, "raise">> \in outcomes
        /\ pc[p] = "returned"
           => /\ FailureEvents(rq[p].op) = {}
              /\ rq[p].result.kind = "return"

C7_Witness ==
    \E p \in Procs :
        /\ pc[p] = "raised"
        /\ Len(events) >= 3
        /\ events[Len(events)].by = rq[p].op
        /\ events[Len(events)].outcome = "failure"

\* C8: no agent's active_tasks is ever below zero.
C8_CounterFloor == \A a \in AgentIds : agents[a].active_tasks >= 0

\* two requests for the same agent overlapped and one of them has left it
C8_Witness ==
    \E p, q \in Procs :
        /\ p # q
        /\ pc[p] = "returned"
        /\ InFlight(q)
        /\ rq[p].routed = "po_tracker"
        /\ rq[q].routed = "po_tracker"
        /\ rq[q].op < rq[p].op
        /\ agents["po_tracker"].active_tasks = 1

\* C9: once every process_email call that was started has returned and none
\* has raised, every agent is idle with no active task.
C9_AllReturnedAllIdle ==
    (/\ ops > 0
     /\ Cardinality(outcomes) = ops
     /\ \A o \in outcomes : o[2] = "return")
    => AllRestored

\* two calls that overlapped at a provider call have both returned
C9_Witness ==
    /\ outcomes = {<<1, "return">>, <<2, "return">>}
    /\ AllRestored
    /\ \E i, j, k \in 1..Len(events) :
          /\ i < j /\ j < k
          /\ events[i].by = 1 /\ events[j].by = 2 /\ events[k].by = 1
          /\ events[k].agent \in StagedAgents /\ events[k].cost > 0

(***************************************************************************)
(* Properties of the cache (specification SpecFifo).                       *)
(***************************************************************************)
MinOf(a, b) == IF a < b THEN a ELSE b

\* C10: after n insertions of distinct keys the cache holds the last
\* min(n, 1000) keys inserted, in insertion order, whatever lookups were
\* made in between; after 1001 insertions exactly the first key is gone.
C10_FifoEviction ==
    /\ Len(cache) = MinOf(nput, CacheCapacity)
    /\ \A i \in 1..Len(cache) : cache[i].k = FifoKey(nput - Len(cache) + i)
    /\ nput = CacheCapacity + 1
       => /\ ~CacheHas(cache, FifoKey(1))
          /\ \A i \in 2..(CacheCapacity + 1) : CacheHas(cache, FifoKey(i))

\* 1001 keys inserted, with lookups (a hit among them) made on the way
C10_Witness ==
    /\ nput = CacheCapacity + 1
    /\ nread = MaxReads
    /\ stats.cache_hits > 0
    /\ ~CacheHas(cache, FifoKey(1))

(***************************************************************************)
(* A driver of the cache key (specification SpecKey): cache_response and   *)
(* get_cached_response with contexts that hold the same pairs in different *)
(* insertion orders, at the top level and in a nested dict.                *)
(***************************************************************************)
MaxKeyOps == 2

KeyTask == "format_response"
KeyPrompts == {"p", "q"}
KeyResponses == {"first answer", "second answer"}
KeyContexts ==
    { <<>>,
      << <<"a", PyStr("1")>>, <<"b", PyStr("2")>> >>,
      << <<"b", PyStr("2")>>, <<"a", PyStr("1")>> >>,
      << <<"a", PyStr("2")>>, <<"b", PyStr("1")>> >>,
      << <<"intent", PyDict(<< <<"a", PyStr("1")>>, <<"b", PyStr("2")>> >>)>>,
         <<"text", PyStr("t")>> >>,
      << <<"text", PyStr("t")>>,
         <<"intent", PyDict(<< <<"b", PyStr("2")>>, <<"a", PyStr("1")>> >>)>> >> }

KeyPut ==
    /\ nlog < MaxKeyOps
    /\ nlog' = nlog + 1
    /\ \E prompt \in KeyPrompts, context \in KeyContexts, response \in KeyResponses :
         /\ cache' = cache_response(cache, KeyTask, prompt, context, response)
         /\ inp' = [op |-> "cache_response", task_type |-> KeyTask,
                    prompt |-> prompt, context |-> context,
                    response |-> response,
                    key |-> _generate_cache_key(KeyTask, prompt, context)]
    /\ out' = NoOp
    /\ UNCHANGED <<stats, agents, events, agent_metrics, now, pc, ops, call,
                   rq, last_call, outcomes, nput, nread, logged>>

KeyGet ==
    /\ nlog < MaxKeyOps
    /\ nlog' = nlog + 1
    /\ \E prompt \in KeyPrompts, context \in KeyContexts :
         LET r == get_cached_response(cache, stats, KeyTask, prompt, context)
         IN  /\ cache' = r.cache
             /\ stats' = r.stats
             /\ out' = [op |-> "get_cached_response", task_type |-> KeyTask,
                        prompt |-> prompt, context |-> context,
                        cached |-> r.cached,
                        key |-> _generate_cache_key(KeyTask, prompt, context)]
    /\ UNCHANGED <<agents, events, agent_metrics, now, pc, ops, call, rq,
                   last_call, outcomes, nput, nread, inp, logged>>

NextKey == KeyPut \/ KeyGet

SpecKey == Init /\ [][NextKey]_vars

(***************************************************************************)
(* Properties of the cache key (specification SpecKey).                    *)
(***************************************************************************)
\* Python's ==: two dicts are equal when they hold the same keys with equal
\* values, whatever the insertion order
RECURSIVE PyEq(_, _)
PyEq(v, w) ==
    IF v.t = "dict" /\ w.t = "dict"
    THEN /\ \A i \in 1..Len(v.d) : DictHas(w.d, v.d[i][1])
         /\ \A i \in 1..Len(w.d) : DictHas(v.d, w.d[i][1])
         /\ \A i \in 1..Len(v.d) :
                PyEq(v.d[i][2], DictGet(w.d, v.d[i][1], PyNone))
    ELSE v = w

\* the lookup made last comes after the insertion made last and names the
\* same task type, the same prompt and an equal context
SameArguments ==
    /\ inp.op = "cache_response"
    /\ out.op = "get_cached_response"
    /\ out.task_type = inp.task_type
    /\ out.prompt = inp.prompt
    /\ PyEq(PyDict(out.context), PyDict(inp.context))

\* C11: two contexts that hold the same pairs in different insertion orders
\* give the same cache key, so a response cached under one ordering is a
\* hit, with that response, for a lookup under the other ordering.
C11_KeyIgnoresInsertionOrder ==
    SameArguments =>
        /\ out.key = inp.key
        /\ out.cached = [found |-> TRUE, value |-> inp.response]

C11_Witness ==
    /\ SameArguments
    /\ out.context # inp.context
    /\ out.cached.found
    /\ \E i \in 1..Len(inp.context) : inp.context[i][2].t = "dict"

(***************************************************************************)
(* A driver of the tier selection (specification SpecTier):                *)
(* analyze_task_complexity on every task type of the three sets and on one *)
(* of none, with a text absent, empty, or around the threshold of 500      *)
(* characters, and with requires_reasoning absent, true or false.          *)
(***************************************************************************)
RECURSIVE TextOfLen(_)
TextOfLen(n) ==
    IF n = 0 THEN ""
    ELSE LET half == TextOfLen(n \div 2)
         IN  half \o half \o (IF n % 2 = 1 THEN "x" ELSE "")

TierTextLens == {0, TextThreshold - 1, TextThreshold, TextThreshold + 1}
TierReasoning == {"absent", "true", "false"}
TierTasks == simple_tasks \cup medium_tasks \cup complex_tasks \cup {"summarize"}

\* has_text = FALSE: the context has no "text"
TierContext(has_text, n, r) ==
    (IF has_text THEN << <<"text", PyStr(TextOfLen(n))>> >> ELSE <<>>)
    \o (IF r = "absent" THEN <<>>
        ELSE << <<"requires_reasoning", PyBool(r = "true")>> >>)

TierApply ==
    /\ \E task_type \in TierTasks, has_text \in BOOLEAN,
          n \in TierTextLens, r \in TierReasoning :
         LET context == TierContext(has_text, n, r)
         IN  /\ inp' = [op |-> "analyze_task_complexity",
                        task_type |-> task_type, context |-> context]
             /\ out' = [op |-> "analyze_task_complexity",
                        tier |-> analyze_task_complexity(task_type, context)]
    /\ UNCHANGED <<cache, stats, agents, events, agent_metrics, now, pc, ops,
                   call, rq, last_call, outcomes, nput, nread, logged, nlog>>

NextTier == TierApply

SpecTier == Init /\ [][NextTier]_vars

(***************************************************************************)
(* Properties of the tier selection (specification SpecTier).              *)
(***************************************************************************)
\* the length of the text of a context, an absent text counting as 0
TextLenOf(context) ==
    IF \E i \in 1..Len(context) : context[i][1] = "text"
    THEN Len(context[CHOOSE i \in 1..Len(context) : context[i][1] = "text"][2].s)
    ELSE 0

ReasoningAsked(context) ==
    \E i \in 1..Len(context) :
        context[i] = <<"requires_reasoning", PyBool(TRUE)>>

\* the tier the four rules give, the first rule that matches deciding
TierByRules(task_type, context) ==
    IF task_type \in {"extract_po_number", "parse_date", "extract_quantity"}
    THEN "gpt-3.5-turbo"
    ELSE IF task_type \in {"classify_intent", "extract_entities", "format_response"}
    THEN (IF TextLenOf(context) < 500 THEN "gpt-3.5-turbo" ELSE "gpt-3.5-turbo-16k")
    ELSE IF task_type \in {"multi_step_reasoning", "decision_making", "coordination"}
            \/ ReasoningAsked(context)
    THEN "gpt-4"
    ELSE "gpt-3.5-turbo-16k"

\* C12: analyze_task_complexity returns SMALL for the simple task types;
\* for the medium ones SMALL when the text has fewer than 500 characters (an
\* absent text counting as 0) and MEDIUM otherwise, whatever
\* requires_reasoning says; LARGE for the complex ones and for any other
\* type with requires_reasoning true; MEDIUM otherwise.  It changes nothing
\* of the optimizer, the registry or the ledger.
C12_TierRules ==
    [][out'.op = "analyze_task_complexity" =>
         /\ out'.tier = TierByRules(inp'.task_type, inp'.context)
         /\ UNCHANGED <<cache, stats, agents, events, agent_metrics>>]_vars

C12_Witness ==
    /\ out.op = "analyze_task_complexity"
    /\ inp.task_type = "classify_intent"
    /\ TextLenOf(inp.context) = 500
    /\ ReasoningAsked(inp.context)
    /\ out.tier = MEDIUM

(***************************************************************************)
(* Properties of the routing (specification Spec).                         *)
(***************************************************************************)
\* the intents classify_intent can give, and two it cannot
RouteIntents ==
    {"delivery_delay", "price_change", "quantity_change",
     "acknowledgement_request", "quality_issue", "general_inquiry",
     "invoice_dispute", ""}

\* the routing table as the specification states it
RouteTable(intent) ==
    IF intent \in {"delivery_delay", "acknowledgement_request"}
    THEN "po_tracker"
    ELSE IF intent \in {"price_change", "quantity_change", "quality_issue"}
    THEN "change_manager"
    ELSE "inbox_agent"

\* C13: _route_email sends delivery_delay and acknowledgement_request to
\* po_tracker, price_change, quantity_change and quality_issue to
\* change_manager, general_inquiry and every unmapped intent to inbox_agent;
\* a process_email call is routed by that table and reports the destination
\* as routed_agent.
C13_RoutingTable ==
    /\ \A intent \in RouteIntents : _route_email(intent) = RouteTable(intent)
    /\ \A p \in Procs :
         /\ rq[p].op # 0 => rq[p].routed = RouteTable(rq[p].intent)
         /\ pc[p] = "returned" =>
              /\ rq[p].result.routed_agent = RouteTable(rq[p].result.intent)
              /\ rq[p].result.intent = rq[p].intent

C13_Witness ==
    \E p, r \in Procs :
        /\ pc[p] = "returned" /\ pc[r] = "returned"
        /\ rq[p].result.intent = "price_change"
        /\ rq[p].result.routed_agent = "change_manager"
        /\ rq[r].result.intent = "general_inquiry"
        /\ rq[r].result.routed_agent = "inbox_agent"

(***************************************************************************)
(* Properties of the ledger under concurrent requests (specification       *)
(* Spec).                                                                  *)
(***************************************************************************)
\* the events a process_email call has logged, in ledger order
EventsOf(op) == SelectSeq(events, LAMBDA e : e.by = op)

\* C14: every event logged in the course of one process_email call carries
\* the execution_id generated at the start of that call, also when the
\* events of several calls are interleaved in the ledger.
C14_OneExecutionId ==
    /\ \A i, j \in 1..Len(events) :
         events[i].by = events[j].by =>
             events[i].execution_id = events[j].execution_id
    /\ \A p \in Procs :
         rq[p].op # 0 =>
             /\ \A i \in 1..Len(events) :
                  events[i].by = rq[p].op =>
                      events[i].execution_id = rq[p].execution_id
             /\ pc[p] = "returned" =>
                  rq[p].result.execution_id = rq[p].execution_id

\* the events of two requests with different ids alternate in the ledger
C14_Witness ==
    \E i, j, k \in 1..Len(events) :
        /\ i < j /\ j < k
        /\ events[i].by = 1 /\ events[j].by = 2 /\ events[k].by = 1
        /\ events[i].execution_id # events[j].execution_id
        /\ Len(EventsOf(1)) = 3 /\ Len(EventsOf(2)) = 3

(***************************************************************************)
(* A driver of the ledger (specification SpecLedger): clients that call    *)
(* log_event, log_decision and override_decision one after the other, with *)
(* contexts that json.dumps can and cannot encode and with agent ids in    *)
(* and out of the registry.                                                *)
(***************************************************************************)
MaxLedgerOps == 2

LedgerAgents == {"po_tracker", "inbox_agent"}
LedgerContexts ==
    { PyDict(<< <<"po_number", PyStr("12345")>> >>),
      PyDict(<< <<"po_number", PyStr("12345")>>,
                <<"received", PyObject("2024-01-15 10:30:00")>> >>),
      PyStr("free text"),
      PyObject("{1, 2}") }
LedgerOutcomes == {"success", "failure"}
LedgerExecutionIds == {"", "exec_7"}
OverrideTargets == LedgerAgents \cup {"no_such_agent"}

LedgerLogEvent ==
    /\ nlog < MaxLedgerOps
    /\ nlog' = nlog + 1
    /\ \E agent_name \in LedgerAgents, context \in LedgerContexts,
          outcome \in LedgerOutcomes, execution_id \in LedgerExecutionIds :
         LET cost == IF outcome = "success" THEN 3 ELSE 0
             L == log_event(events, agent_metrics, agent_name, "act", context,
                            outcome, cost, 5, execution_id, nlog + 1)
         IN  /\ events' = L.events
             /\ agent_metrics' = L.agent_metrics
             /\ inp' = [op |-> "log_event", agent_name |-> agent_name,
                        context |-> context, outcome |-> outcome,
                        cost |-> cost, duration_ms |-> 5,
                        execution_id |-> execution_id]
             /\ out' = [op |-> "log_event", raised |-> L.raised]
             /\ logged' = IF L.raised # "" THEN logged
                          ELSE Append(logged,
                                      NewEvent(events, agent_name, "act",
                                               context, outcome, cost, 5,
                                               execution_id, nlog + 1))
    /\ UNCHANGED <<cache, stats, agents, now, pc, ops, call, rq, last_call,
                   outcomes, nput, nread>>

LedgerLogDecision ==
    /\ nlog < MaxLedgerOps
    /\ nlog' = nlog + 1
    /\ \E agent_name \in LedgerAgents, inputs \in LedgerContexts :
         LET L == log_decision(events, agent_metrics, agent_name, "hold",
                               "why", inputs, "exec_7", nlog + 1)
         IN  /\ events' = L.events
             /\ agent_metrics' = L.agent_metrics
             /\ inp' = [op |-> "log_decision", agent_name |-> agent_name,
                        context |-> inputs, outcome |-> "success",
                        cost |-> 0, duration_ms |-> 0,
                        execution_id |-> "exec_7"]
             /\ out' = [op |-> "log_decision", raised |-> L.raised]
             /\ logged' = IF L.raised # "" THEN logged
                          ELSE Append(logged, L.events[Len(L.events)])
    /\ UNCHANGED <<cache, stats, agents, now, pc, ops, call, rq, last_call,
                   outcomes, nput, nread>>

OverrideDecision ==
    /\ nlog < MaxLedgerOps
    /\ nlog' = nlog + 1
    /\ \E agent_id \in OverrideTargets :
         LET r == override_decision(agents, events, agent_metrics, agent_id,
                                    PyStr("route_to_po_tracker"),
                                    PyStr("wrong agent"), nlog + 1)
         IN  /\ events' = r.events
             /\ agent_metrics' = r.agent_metrics
             /\ inp' = [op |-> "override_decision", agent_id |-> agent_id]
             /\ out' = [op |-> "override_decision", raised |-> r.raised,
                        error |-> r.error, status |-> r.status,
                        agent |-> r.agent,
                        after |-> IF out.op = "none" THEN "" ELSE out.raised]
             /\ logged' = IF r.raised # "" THEN logged
                          ELSE Append(logged, r.events[Len(r.events)])
    /\ UNCHANGED <<cache, stats, agents, now, pc, ops, call, rq, last_call,
                   outcomes, nput, nread>>

NextLedger == LedgerLogEvent \/ LedgerLogDecision \/ OverrideDecision

SpecLedger == Init /\ [][NextLedger]_vars

(***************************************************************************)
(* Properties of the ledger (specification SpecLedger).                    *)
(***************************************************************************)
\* how many events were logged for an agent with an outcome
CountLogged(agent_name, outcome) ==
    Cardinality({i \in 1..Len(logged) :
                    logged[i].agent = agent_name /\ logged[i].outcome = outcome})

\* C15: for every agent successful_actions is the number of its events
\* logged with outcome success and failed_actions the number logged with
\* outcome failure; an overridden event is in neither.
C15_OutcomeCounters ==
    \A a \in DOMAIN agent_metrics :
        /\ agent_metrics[a].successful_actions = CountLogged(a, "success")
        /\ agent_metrics[a].failed_actions = CountLogged(a, "failure")

\* C16: log_event and log_decision never raise, whatever the context: the
\* event is appended and counted, and a context that is no dict is recorded
\* as its str().
C16_LoggingNeverRaises ==
    out.op \in {"log_event", "log_decision"} =>
        /\ out.raised = ""
        /\ Len(logged) > 0
        /\ events[Len(events)] = logged[Len(logged)]
        /\ events[Len(events)].agent = inp.agent_name
        /\ (out.op = "log_event" /\ inp.context.t # "dict") =>
              events[Len(events)].context = PyStrOf(inp.context)

(***************************************************************************)
(* A driver that fills the ledger beyond its capacity (specification       *)
(* SpecLong): log_event calls without an execution_id, for two agents and  *)
(* both outcomes in a fixed pattern up to the capacity (the first event    *)
(* for po_tracker, the others for inbox_agent, so that one agent gets more *)
(* events than the ledger keeps) and in any combination beyond it, and     *)
(* get_agent_metrics in between.                                           *)
(***************************************************************************)
ExtraLogs == 2
MaxLogs == EventCapacity + ExtraLogs

LongAgents(n) ==
    IF n > EventCapacity THEN LedgerAgents
    ELSE IF n = 1 THEN {"po_tracker"} ELSE {"inbox_agent"}
LongOutcomes(n) ==
    IF n > EventCapacity THEN LedgerOutcomes
    ELSE IF n % 2 = 0 THEN {"failure"} ELSE {"success"}

LongLog ==
    /\ nlog < MaxLogs
    /\ nlog' = nlog + 1
    /\ \E agent_name \in LongAgents(nlog + 1), outcome \in LongOutcomes(nlog + 1) :
         LET context == PyDict(<< <<"po_number", PyStr("12345")>> >>)
             L == log_event(events, agent_metrics, agent_name, "act", context,
                            outcome, 1, 5, "", nlog + 1)
         IN  /\ events' = L.events
             /\ agent_metrics' = L.agent_metrics
             /\ inp' = [op |-> "log_event", agent_name |-> agent_name,
                        context |-> context, outcome |-> outcome,
                        cost |-> 1, duration_ms |-> 5, execution_id |-> ""]
             /\ out' = [op |-> "log_event", raised |-> L.raised]
             /\ logged' = Append(logged,
                                 NewEvent(events, agent_name, "act", context,
                                          outcome, 1, 5, "", nlog + 1))
    /\ UNCHANGED <<cache, stats, agents, now, pc, ops, call, rq, last_call,
                   outcomes, nput, nread>>

LongGetAgentMetrics ==
    /\ \E agent_name \in LedgerAgents \cup {"routing_agent"} :
         /\ inp' = [op |-> "get_agent_metrics", agent_name |-> agent_name]
         /\ out' = [op |-> "get_agent_metrics"]
                    @@ get_agent_metrics(agent_metrics, agent_name)
    /\ UNCHANGED <<cache, stats, agents, events, agent_metrics, now, pc, ops,
                   call, rq, last_call, outcomes, nput, nread, logged, nlog>>

NextLong == LongLog \/ LongGetAgentMetrics

SpecLong == Init /\ [][NextLong]_vars

(***************************************************************************)
(* Properties of the ledger beyond its capacity (specification SpecLong).  *)
(***************************************************************************)
\* C17: after every log_event call the event list holds at most 1000 events
\* and is exactly the most recent min(n, 1000) of the n events appended so
\* far, in append order and as they were appended.
C17_KeepsMostRecent ==
    /\ Len(events) <= 1000
    /\ Len(events) = MinOf(Len(logged), 1000)
    /\ events = SubSeq(logged, Len(logged) - Len(events) + 1, Len(logged))

C17_Witness ==
    /\ Len(logged) = 1002
    /\ Len(events) = 1000
    /\ events[1] = logged[3]
    /\ events[1] # logged[1]
    /\ events[1000] = logged[1002]

\* the events of an agent in the ledger, and the sums of their cost and time
EventsFor(agent_name) == SelectSeq(events, LAMBDA e : e.agent = agent_name)

RECURSIVE SumCost(_)
SumCost(ev) == IF ev = <<>> THEN 0 ELSE Head(ev).cost + SumCost(Tail(ev))
RECURSIVE SumTime(_)
SumTime(ev) == IF ev = <<>> THEN 0 ELSE Head(ev).duration_ms + SumTime(Tail(ev))

\* the log_event calls a process_email call has made so far: the parse
\* event and the routing decision when it is at its provider call or was
\* routed to no stage, one more when its stage has logged its action or its
\* exception handler the failure
LogCallsOf(op) ==
    IF <<op, "raise">> \in outcomes THEN 3
    ELSE IF <<op, "return">> \in outcomes
            /\ \E a \in StagedAgents, i \in 1..Len(events) :
                  /\ events[i].by = op
                  /\ events[i].action = "decision: route_to_" \o a
    THEN 3
    ELSE 2

SameKey(a, b) ==
    /\ a.task_type = b.task_type
    /\ a.prompt = b.prompt
    /\ a.context = b.context

\* coroutine q is at a provider call for the key coroutine p is about to ask
SameKeyInFlight(p) ==
    \E q \in Procs \ {p} : Awaiting(q) /\ SameKey(call[q].args, call'[p].args)

\* C19: a call_llm call that misses the cache goes to the provider also when
\* a call for the same key is already at its provider call; every call that
\* returns from the provider leaves exactly one cache entry for its key,
\* holding its own response (the last write wins); and a call raises only
\* when its own provider call at the selected tier has raised.
C19_RaceLastWriteWins ==
    [][/\ \A i, j \in 1..Len(cache') : cache'[i].k = cache'[j].k => i = j
       /\ \A p \in Procs :
            /\ (/\ Starts(p)
                /\ SameKeyInFlight(p)
                /\ ~CacheLookup(cache, call'[p].args.task_type,
                                call'[p].args.prompt,
                                call'[p].args.context).found)
               => /\ Awaiting(p)'
                  /\ Len(call'[p].invoked) = 1
                  /\ stats'.cache_misses = stats.cache_misses + 1
            /\ (Resumes(p) /\ pc'[p] = "llm_ret")
               => /\ CacheLookup(cache', call[p].args.task_type,
                                 call[p].args.prompt, call[p].args.context) =
                        [found |-> TRUE, value |-> call'[p].result.response]
                  /\ Len(cache') <= Len(cache) + 1
            /\ (Resumes(p) /\ pc'[p] = "llm_raise")
               => /\ pc[p] = "await_tier"
                  /\ call[p].reply.st = "err"]_vars

\* two calls for one key were at the provider together and both have
\* returned: one entry, holding the response of the call that returned last
C19_Witness ==
    \E p, q \in Procs :
        /\ p # q
        /\ pc[p] = "llm_ret" /\ pc[q] = "llm_ret"
        /\ SameKey(call[p].args, call[q].args)
        /\ call[p].invoked # <<>> /\ call[q].invoked # <<>>
        /\ call[p].result.response # ""
        /\ call[q].result.response # ""
        /\ call[p].result.response # call[q].result.response
        /\ Len(cache) = 1
        /\ cache[1].v = last_call.response
        /\ last_call.response = call[q].result.response
        /\ stats.cache_misses = 2

(***************************************************************************)
(* Properties of override_decision (specification SpecLedger).             *)
(***************************************************************************)
\* C20: override_decision for an agent id that is not in the registry
\* raises "Agent <id> not found" and leaves the event list, the metrics of
\* every agent, the registry and the optimizer as they were, so whatever
\* could be done before can be done after; for a registered agent it
\* returns "overridden", whatever came before it.
C20_UnknownAgentRejected ==
    [][(nlog' = nlog + 1 /\ inp'.op = "override_decision") =>
         IF inp'.agent_id \in AgentIds
         THEN /\ out'.raised = ""
              /\ out'.status = "overridden"
              /\ out'.agent = inp'.agent_id
              /\ Len(events') = Len(events) + 1
              /\ events'[Len(events')].agent = inp'.agent_id
              /\ events'[Len(events')].outcome = "overridden"
              /\ agent_metrics'[inp'.agent_id].overrides =
                     MetricsOf(agent_metrics, inp'.agent_id).overrides + 1
         ELSE /\ out'.raised = "ValueError"
              /\ out'.error = "Agent " \o inp'.agent_id \o " not found"
              /\ out'.status = ""
              /\ UNCHANGED <<events, agent_metrics, agents, cache, stats>>]_vars

\* an override for a registered agent is accepted right after one for an
\* unknown agent was rejected
C20_Witness ==
    /\ out.op = "override_decision"
    /\ out.status = "overridden"
    /\ out.after = "ValueError"
    /\ nlog = 2
    /\ Len(events) = 1
    /\ agent_metrics[inp.agent_id].overrides = 1

(***************************************************************************)
(* A driver of the stage workflows (specification SpecStage): one caller   *)
(* of _execute_workflow, one call after the other, with each destination   *)
(* and with intents the router would and would not send there.  An         *)
(* exception of call_llm leaves the workflow as it is (the workflows have   *)
(* no handler).                                                            *)
(***************************************************************************)
MaxStageCalls == 2

StageCaller == 1
\* <<agent_name, intent>>
StageInputs ==
    { <<"po_tracker", "delivery_delay">>,
      <<"po_tracker", "acknowledgement_request">>,
      <<"po_tracker", "price_change">>,
      <<"change_manager", "price_change">>,
      <<"change_manager", "quantity_change">>,
      <<"change_manager", "quality_issue">>,
      <<"inbox_agent", "general_inquiry">> }
StageExecutionId == "exec_0_4242"
StageSender == "supplier@example.com"
StagePo == PyStr("12345")

\* what _execute_workflow gives its caller: the dict returned or the
\* exception that left it
workflow_result(kind, action, cost, message) ==
    [NoOutcome EXCEPT !.kind = kind, !.action = action, !.cost = cost,
                      !.error = message]

\* what a stage workflow does once its call_llm call is over
workflow_after_call(ag, ev, am, q, llm) ==
    IF llm.kind = "raise"
    THEN [agents |-> ag, events |-> ev, agent_metrics |-> am,
          result |-> workflow_result("raise", "", 0, llm.response)]
    ELSE LET w == workflow_return(ag, ev, am, q, llm)
         IN  [agents |-> w.agents, events |-> w.events,
              agent_metrics |-> w.agent_metrics,
              result |-> workflow_result("return", w.wf.action, w.wf.cost, "")]

\* _execute_workflow from its call to its first suspension (or to its end)
ExecuteWorkflow(p) ==
    /\ pc[p] = "idle"
    /\ ops < MaxStageCalls
    /\ ops' = ops + 1
    /\ \E input \in StageInputs :
         LET agent_name == input[1]
             intent == input[2]
             q == [op |-> ops + 1, execution_id |-> StageExecutionId,
                   intent |-> intent, routed |-> agent_name,
                   po_number |-> StagePo, sender |-> StageSender,
                   result |-> NoOutcome]
         IN  IF agent_name \in StagedAgents
             THEN LET ag1 == MarkActive(agents, agent_name)
                      r == call_llm_enter(cache, stats,
                               StageCall(agent_name, intent, StagePo, StageSender))
                      fin == workflow_after_call(ag1, events, agent_metrics, q,
                                                 r.frame.result)
                  IN  /\ cache' = r.cache
                      /\ stats' = r.stats
                      /\ call' = [call EXCEPT ![p] = FrameLeft(r)]
                      /\ last_call' = LastAfter(r)
                      /\ IF r.pc = "llm_ret"
                         THEN /\ agents' = fin.agents
                              /\ events' = fin.events
                              /\ agent_metrics' = fin.agent_metrics
                              /\ rq' = [rq EXCEPT ![p] = [q EXCEPT !.result = fin.result]]
                              /\ pc' = [pc EXCEPT ![p] = OutcomePc(fin.result)]
                              /\ outcomes' = outcomes \cup {<<q.op, fin.result.kind>>}
                         ELSE /\ agents' = ag1
                              /\ rq' = [rq EXCEPT ![p] = q]
                              /\ pc' = [pc EXCEPT ![p] = r.pc]
                              /\ UNCHANGED <<events, agent_metrics, outcomes>>
             ELSE /\ rq' = [rq EXCEPT ![p] =
                              [q EXCEPT !.result =
                                  workflow_result("return", "logged", 0, "")]]
                  /\ pc' = [pc EXCEPT ![p] = "returned"]
                  /\ outcomes' = outcomes \cup {<<q.op, "return">>}
                  /\ UNCHANGED <<cache, stats, call, last_call, agents, events,
                                 agent_metrics>>
    /\ UNCHANGED <<now, nput, nread, aux>>

\* the workflow resumes with the reply of the provider and runs to its next
\* suspension or to its end
ResumeWorkflow(p) ==
    /\ Awaiting(p)
    /\ call[p].reply.st # "none"
    /\ LET r == call_llm_resume(cache, stats, call[p], pc[p])
           fin == workflow_after_call(agents, events, agent_metrics, rq[p],
                                      r.frame.result)
       IN  /\ cache' = r.cache
           /\ stats' = r.stats
           /\ call' = [call EXCEPT ![p] = FrameLeft(r)]
           /\ last_call' = LastAfter(r)
           /\ IF r.pc \in {"llm_ret", "llm_raise"}
              THEN /\ agents' = fin.agents
                   /\ events' = fin.events
                   /\ agent_metrics' = fin.agent_metrics
                   /\ rq' = [rq EXCEPT ![p].result = fin.result]
                   /\ pc' = [pc EXCEPT ![p] = OutcomePc(fin.result)]
                   /\ outcomes' = outcomes \cup {<<rq[p].op, fin.result.kind>>}
              ELSE /\ pc' = [pc EXCEPT ![p] = r.pc]
                   /\ UNCHANGED <<agents, events, agent_metrics, rq, outcomes>>
    /\ UNCHANGED <<now, ops, nput, nread, aux>>

NextStage ==
    \/ ExecuteWorkflow(StageCaller)
    \/ ProviderReply(StageCaller)
    \/ ResumeWorkflow(StageCaller)
    \/ RequestDone(StageCaller)

SpecStage == Init /\ [][NextStage]_vars

(***************************************************************************)
(* Properties of the stage workflows (specification SpecStage).            *)
(***************************************************************************)
\* call_llm calls made so far: each makes exactly one cache lookup, which
\* counts either a hit or a miss
CallsMade == stats.cache_hits + stats.cache_misses

\* the workflow of agent_name is entered, resumed, left with a dict or left
\* by an exception in this step
StageStarts(agent_name) ==
    Starts(StageCaller) /\ rq'[StageCaller].routed = agent_name
StageResumes(agent_name) ==
    Resumes(StageCaller) /\ rq[StageCaller].routed = agent_name
StageReturns(agent_name) ==
    /\ pc[StageCaller] # "returned"
    /\ pc'[StageCaller] = "returned"
    /\ rq'[StageCaller].routed = agent_name
StageRaises(agent_name) ==
    /\ pc[StageCaller] # "raised"
    /\ pc'[StageCaller] = "raised"
    /\ rq'[StageCaller].routed = agent_name

\* the one call_llm call of the workflow names this task type and no tier
StageCallIs(task_type) ==
    LET a == IF Awaiting(StageCaller)' THEN call'[StageCaller].args
             ELSE last_call'.args
    IN  /\ CallsMade' = CallsMade + 1
        /\ a.task_type = task_type
        /\ a.force_tier = NoTier

\* the cost the call_llm call of the workflow has returned in this step: 0
\* from the cache, else the cost of the provider call it resumed from
CostReturned ==
    IF Starts(StageCaller) THEN 0 ELSE call[StageCaller].reply.cost

\* exactly one event is logged in this step, for agent_name, with the action
\* and the cost returned by the call, and the workflow returns both
StageLogs(agent_name, action) ==
    /\ Len(events') = Len(events) + 1
    /\ SubSeq(events', 1, Len(events)) = events
    /\ LET e == events'[Len(events')]
       IN  /\ e.agent = agent_name
           /\ e.action = action
           /\ e.outcome = "success"
           /\ e.cost = CostReturned
           /\ e.execution_id = rq'[StageCaller].execution_id
    /\ rq'[StageCaller].result.action = action
    /\ rq'[StageCaller].result.cost = CostReturned

PoAction(intent) ==
    IF intent = "delivery_delay" THEN "escalate_if_critical"
    ELSE IF intent = "acknowledgement_request" THEN "send_acknowledgement"
    ELSE "update_erp"

\* C21: the po_tracker stage makes exactly one call_llm call, with task type
\* decision_making and no forced tier; when the call returns it logs exactly
\* one po_tracker event with the action of the intent (escalate_if_critical
\* for delivery_delay, send_acknowledgement for acknowledgement_request,
\* update_erp otherwise) and the cost the call returned.
C21_PoTrackerStage ==
    [][/\ StageStarts("po_tracker") => StageCallIs("decision_making")
       /\ StageResumes("po_tracker") =>
            /\ CallsMade' = CallsMade
            /\ ~StageReturns("po_tracker") => events' = events
       /\ StageReturns("po_tracker") =>
            StageLogs("po_tracker", PoAction(rq'[StageCaller].intent))
       /\ StageRaises("po_tracker") => events' = events]_vars

C21_Witness ==
    /\ pc[StageCaller] = "returned"
    /\ rq[StageCaller].routed = "po_tracker"
    /\ rq[StageCaller].intent = "price_change"
    /\ rq[StageCaller].result.action = "update_erp"
    /\ rq[StageCaller].result.cost > 0
    /\ events[Len(events)].action = "update_erp"
    /\ CallsMade = 1

ChangeAction(intent) ==
    IF intent \in {"price_change", "quantity_change"}
    THEN "requires_approval" ELSE "log_change"

\* C22: the change_manager stage makes exactly one call_llm call, with task
\* type multi_step_reasoning and no forced tier; when the call returns it
\* logs exactly one change_manager event with the action of the intent
\* (requires_approval for price_change and quantity_change, log_change
\* otherwise, quality_issue included) and the cost the call returned.
C22_ChangeManagerStage ==
    [][/\ StageStarts("change_manager") => StageCallIs("multi_step_reasoning")
       /\ StageResumes("change_manager") =>
            /\ CallsMade' = CallsMade
            /\ ~StageReturns("change_manager") => events' = events
       /\ StageReturns("change_manager") =>
            StageLogs("change_manager", ChangeAction(rq'[StageCaller].intent))
       /\ StageRaises("change_manager") => events' = events]_vars

C22_Witness ==
    /\ pc[StageCaller] = "returned"
    /\ rq[StageCaller].routed = "change_manager"
    /\ rq[StageCaller].intent = "quality_issue"
    /\ rq[StageCaller].result.action = "log_change"
    /\ rq[StageCaller].result.cost > 0
    /\ events[Len(events)].action = "log_change"
    /\ events[Len(events)].agent = "change_manager"
    /\ CallsMade = 1

(***************************************************************************)
(* Properties of requests without a stage (specification Spec).            *)
(***************************************************************************)
\* C23: a request routed to a destination other than po_tracker and
\* change_manager makes no call_llm call: it leaves the cache and the
\* statistics of the optimizer as they were and returns at once with stage
\* action "logged" and cost 0.
C23_NoStageNoCall ==
    [][\A p \in Procs :
         (Starts(p) /\ rq'[p].routed \notin {"po_tracker", "change_manager"})
         => /\ cache' = cache
            /\ stats' = stats
            /\ call' = call
            /\ last_call' = last_call
            /\ pc'[p] = "returned"
            /\ rq'[p].result.kind = "return"
            /\ rq'[p].result.action = "logged"
            /\ rq'[p].result.cost = 0]_vars

\* such a request has returned after a staged request had filled the cache
C23_Witness ==
    \E p \in Procs :
        /\ pc[p] = "returned"
        /\ rq[p].op = 2
        /\ rq[p].routed = "inbox_agent"
        /\ rq[p].result.action = "logged"
        /\ Len(cache) = 1
        /\ stats.total_cost > 0
        /\ CallsMade = 1

(***************************************************************************)
(* Properties of the metrics beyond the capacity of the ledger             *)
(* (specification SpecLong).                                               *)
(***************************************************************************)
\* the fraction r is n / d
IsRatio(r, n, d) == r.num * d = n * r.den

\* C24: when N events have been logged for an agent, S with outcome success
\* and F with outcome failure and none overridden, get_agent_metrics reports
\* total_actions N, success_rate S / N * 100 and failure_rate F / N * 100,
\* also when more events were logged than the ledger keeps.
C24_AgentRates ==
    (out.op = "get_agent_metrics" /\ out.found) =>
        LET a == inp.agent_name
            S == CountLogged(a, "success")
            F == CountLogged(a, "failure")
            N == S + F
        IN  (N >= 1 /\ CountLogged(a, "overridden") = 0) =>
               /\ out.total_actions = N
               /\ IsRatio(out.success_rate, S * 100, N)
               /\ IsRatio(out.failure_rate, F * 100, N)

\* more than 1000 events logged for one agent, of both outcomes
C24_Witness ==
    /\ out.op = "get_agent_metrics"
    /\ out.found
    /\ inp.agent_name = "inbox_agent"
    /\ out.total_actions = 1001
    /\ Len(events) = 1000
    /\ CountLogged("inbox_agent", "success") > 0
    /\ CountLogged("inbox_agent", "failure") > 0

(***************************************************************************)
(* A driver of the timeline (specification SpecTimeline): log_event calls  *)
(* at the readings of a wall clock that may stand still, advance or be set *)
(* back, and get_timeline calls with a limit and with or without a filter. *)
(* A timestamp is the number the clock shows; isoformat() strings of one   *)
(* clock compare as these numbers do.                                      *)
(***************************************************************************)
MaxTimelineLogs == 3
MaxTime == 2
MaxLimit == 3

NoFilter == ""     \* agent_filter=None
TimelineFilters == LedgerAgents \cup {"routing_agent", NoFilter}

\* the wall clock shows another time
ClockMoves ==
    /\ \E t \in 0..MaxTime : t # now /\ now' = t
    /\ UNCHANGED <<cache, stats, agents, events, agent_metrics, pc, ops, call,
                   rq, last_call, outcomes, nput, nread, aux>>

TimelineLog ==
    /\ nlog < MaxTimelineLogs
    /\ nlog' = nlog + 1
    /\ \E agent_name \in LedgerAgents :
         LET context == PyDict(<< <<"po_number", PyStr("12345")>> >>)
             L == log_event(events, agent_metrics, agent_name, "act", context,
                            "success", 1, 5, "", nlog + 1)
         IN  /\ events' = L.events
             /\ agent_metrics' = L.agent_metrics
             /\ inp' = [op |-> "log_event", agent_name |-> agent_name,
                        context |-> context, outcome |-> "success",
                        cost |-> 1, duration_ms |-> 5, execution_id |-> ""]
             /\ out' = [op |-> "log_event", raised |-> L.raised]
             /\ logged' = Append(logged,
                                 NewEvent(events, agent_name, "act", context,
                                          "success", 1, 5, "", nlog + 1))
    /\ UNCHANGED <<cache, stats, agents, now, pc, ops, call, rq, last_call,
                   outcomes, nput, nread>>

GetTimeline ==
    /\ \E limit \in 0..MaxLimit, agent_filter \in TimelineFilters :
         /\ inp' = [op |-> "get_timeline", limit |-> limit,
                    agent_filter |-> agent_filter]
         /\ out' = [op |-> "get_timeline",
                    events |-> get_timeline(events, limit, agent_filter)]
    /\ UNCHANGED <<cache, stats, agents, events, agent_metrics, now, pc, ops,
                   call, rq, last_call, outcomes, nput, nread, logged, nlog>>

NextTimeline == ClockMoves \/ TimelineLog \/ GetTimeline

SpecTimeline == Init /\ [][NextTimeline]_vars

(***************************************************************************)
(* Properties of the timeline (specification SpecTimeline).                *)
(***************************************************************************)
\* the retained events get_timeline has to choose from
MatchingIn(ev, agent_filter) ==
    IF agent_filter = NoFilter THEN ev
    ELSE SelectSeq(ev, LAMBDA e : e.agent = agent_filter)
Matching(agent_filter) == MatchingIn(events, agent_filter)

SeqRange(s) == {s[i] : i \in 1..Len(s)}

\* C25: get_timeline(limit, agent_filter) returns at most limit events,
\* newest first; with a filter every one of them belongs to that agent; they
\* are retained events that match, each once, as many as the limit allows,
\* and no matching event left out is newer than one returned; the call
\* leaves the ledger as it is.
C25_Timeline ==
    [][out'.op = "get_timeline" =>
         LET r == out'.events
             all == MatchingIn(events', inp'.agent_filter)
         IN  /\ Len(r) <= inp'.limit
             /\ \A i, j \in 1..Len(r) :
                  i < j => r[i].timestamp >= r[j].timestamp
             /\ inp'.agent_filter # NoFilter =>
                  \A i \in 1..Len(r) : r[i].agent = inp'.agent_filter
             /\ SeqRange(r) \subseteq SeqRange(all)
             /\ Cardinality(SeqRange(r)) = Len(r)
             /\ Len(r) = MinOf(inp'.limit, Len(all))
             /\ \A e \in SeqRange(all) \ SeqRange(r) :
                  \A i \in 1..Len(r) : e.timestamp <= r[i].timestamp
             /\ (now' = now /\ nlog' = nlog) =>
                  UNCHANGED <<events, agent_metrics>>]_vars

\* a filtered timeline that leaves out the oldest matching event of a
\* ledger whose timestamps are not in append order
C25_Witness ==
    /\ out.op = "get_timeline"
    /\ inp.agent_filter = "po_tracker"
    /\ inp.limit = 2
    /\ Len(out.events) = 2
    /\ Len(Matching("po_tracker")) = 3
    /\ events[1].timestamp > events[2].timestamp
    /\ events[2].timestamp < events[3].timestamp
    /\ out.events[1] = events[1]

(***************************************************************************)
(* Properties of call_llm without a cascade (specification SpecLLM).       *)
(***************************************************************************)
\* a forced tier is given or the task type is one that never cascades
NoCascadeFor(a) ==
    a.force_tier # NoTier \/ a.task_type \in {"extract_po_number", "parse_date"}

\* the forced tier if one is given, else the tier of the selection rules
TierFor(a) ==
    IF a.force_tier # NoTier THEN a.force_tier
    ELSE TierByRules(a.task_type, a.context)

\* C26: on a cache miss with a forced tier, or with a task type that never
\* cascades, call_llm makes no SMALL attempt: it invokes the provider once,
\* at the forced tier if there is one and else at the tier of the selection
\* rules, and when that call returns it counts the call under that tier and
\* no other.
C26_NoCascade ==
    [][\A p \in Procs :
         /\ (/\ Starts(p)
             /\ NoCascadeFor(call'[p].args)
             /\ ~CacheLookup(cache, call'[p].args.task_type,
                             call'[p].args.prompt, call'[p].args.context).found)
            => /\ pc'[p] = "await_tier"
               /\ call'[p].invoked = <<TierFor(call'[p].args)>>
               /\ stats'.calls_by_tier = stats.calls_by_tier
         /\ (Resumes(p) /\ NoCascadeFor(call[p].args))
            => /\ pc[p] = "await_tier"
               /\ pc'[p] \in {"llm_ret", "llm_raise"}
               /\ call'[p].invoked = <<TierFor(call[p].args)>>
               /\ pc'[p] = "llm_ret" =>
                    /\ stats'.calls_by_tier[TierFor(call[p].args)] =
                           stats.calls_by_tier[TierFor(call[p].args)] + 1
                    /\ OtherTiersKept(TierFor(call[p].args))
                    /\ call'[p].result =
                           Returned(call[p].reply.response, call[p].reply.cost)
               /\ pc'[p] = "llm_raise" =>
                    stats'.calls_by_tier = stats.calls_by_tier]_vars

\* a forced call for a task type that would cascade, and a call for a task
\* type that never cascades, have both returned from their one invocation
C26_Witness ==
    \E p, q \in Procs :
        /\ pc[p] = "llm_ret" /\ pc[q] = "llm_ret"
        /\ call[p].args.task_type = "decision_making"
        /\ call[p].args.force_tier = MEDIUM
        /\ call[p].invoked = <<MEDIUM>>
        /\ call[q].args.task_type = "parse_date"
        /\ call[q].args.force_tier = NoTier
        /\ call[q].invoked = <<SMALL>>
        /\ stats.calls_by_tier = [t \in ModelTier |->
                                     IF t = LARGE THEN 0 ELSE 1]

(***************************************************************************)
(* Properties of the cost statistics (specification SpecLLM).              *)
(***************************************************************************)
\* the call_llm call of coroutine p returns to its caller in this step
ReturnsNow(p) == pc[p] # "llm_ret" /\ pc'[p] = "llm_ret"

\* C27: total_cost is the sum of the costs call_llm has returned to its
\* callers: a call that returns adds the cost it returns (0 for a cache
\* hit, the cost of the accepted SMALL attempt for a cascade), and nothing
\* else changes total_cost.
C27_TotalCostIsCostsReturned ==
    [][/\ \A p \in Procs :
            ReturnsNow(p) =>
                stats'.total_cost = stats.total_cost + call'[p].result.cost
       /\ (\A p \in Procs : ~ReturnsNow(p)) =>
            stats'.total_cost = stats.total_cost]_vars

(***************************************************************************)
(* Agent status under interleaved requests (specification Spec).           *)
(***************************************************************************)
\* C28: in every reachable state each agent's status is "active" exactly
\* when its active_tasks is greater than 0, so no agent is reported idle
\* while a request that marked it active is still in flight.
C28_StatusTracksActiveTasks ==
    \A a \in AgentIds :
        (agents[a].status = "active") <=> (agents[a].active_tasks > 0)

(***************************************************************************)
(* call_llm called by one caller at a time (specification SpecSolo): each  *)
(* call runs to its end before the next one starts.  inp keeps the cache   *)
(* and the statistics as they were when the call in progress was made.     *)
(***************************************************************************)
MaxSoloCalls == 3

SoloCaller == 1

SoloCallLLM(p) ==
    /\ pc[p] = "idle"
    /\ ops < MaxSoloCalls
    /\ \E a \in LLMArgs :
         LET r == call_llm_enter(cache, stats, a)
         IN  /\ cache' = r.cache
             /\ stats' = r.stats
             /\ pc' = [pc EXCEPT ![p] = r.pc]
             /\ call' = [call EXCEPT ![p] = r.frame]
             /\ last_call' = LastAfter(r)
             /\ inp' = [op |-> "call_llm", args |-> a,
                        cache |-> cache, stats |-> stats]
    /\ ops' = ops + 1
    /\ UNCHANGED <<agents, events, agent_metrics, now, rq, outcomes, nput,
                   nread, out, logged, nlog>>

NextSolo ==
    \/ SoloCallLLM(SoloCaller)
    \/ ProviderReply(SoloCaller)
    \/ ResumeLLM(SoloCaller)
    \/ FinishLLM(SoloCaller)

SpecSolo == Init /\ [][NextSolo]_vars

\* the provider call at the selected tier of coroutine p fails in this step
TierFails(p) == Resumes(p) /\ pc[p] = "await_tier" /\ call[p].reply.st = "err"

\* C29: when the provider call at the selected tier fails, the call ends
\* with the cache, calls_by_tier and total_cost as they were before the call
\* and with cache_misses (nothing else) incremented, whether or not a SMALL
\* attempt was made and discarded first; an identical call made next is
\* again a cache miss.
C29_FailedCallLeavesNoTrace ==
    [][\A p \in Procs :
         TierFails(p) =>
            /\ pc'[p] = "llm_raise"
            /\ cache' = inp.cache
            /\ stats'.calls_by_tier = inp.stats.calls_by_tier
            /\ stats'.total_cost = inp.stats.total_cost
            /\ stats'.cache_hits = inp.stats.cache_hits
            /\ stats'.cache_misses = inp.stats.cache_misses + 1
            /\ LET look == get_cached_response(cache', stats',
                               call[p].args.task_type, call[p].args.prompt,
                               call[p].args.context)
               IN  /\ ~look.cached.found
                   /\ look.stats.cache_misses = stats'.cache_misses + 1]_vars

(***************************************************************************)
(* A driver of the cache key with the separator in its parts               *)
(* (specification SpecSep): cache_response and get_cached_response with    *)
(* task types and prompts that contain ':'.  logged keeps the insertions   *)
(* made so far.                                                            *)
(***************************************************************************)
MaxSepOps == 2

SepTasks == {"a", "a:b"}
SepPrompts == {"c", "b:c"}
SepResponses == {"first answer", "second answer"}
SepContexts == { <<>>, << <<"a", PyStr("1")>> >> }

SepPut ==
    /\ nlog < MaxSepOps
    /\ nlog' = nlog + 1
    /\ \E task_type \in SepTasks, prompt \in SepPrompts,
          context \in SepContexts, response \in SepResponses :
         /\ cache' = cache_response(cache, task_type, prompt, context, response)
         /\ inp' = [op |-> "cache_response", task_type |-> task_type,
                    prompt |-> prompt, context |-> context,
                    response |-> response,
                    key |-> _generate_cache_key(task_type, prompt, context)]
         /\ logged' = Append(logged, inp')
    /\ out' = NoOp
    /\ UNCHANGED <<stats, agents, events, agent_metrics, now, pc, ops, call,
                   rq, last_call, outcomes, nput, nread>>

SepGet ==
    /\ nlog < MaxSepOps
    /\ nlog' = nlog + 1
    /\ \E task_type \in SepTasks, prompt \in SepPrompts, context \in SepContexts :
         LET r == get_cached_response(cache, stats, task_type, prompt, context)
         IN  /\ cache' = r.cache
             /\ stats' = r.stats
             /\ out' = [op |-> "get_cached_response", task_type |-> task_type,
                        prompt |-> prompt, context |-> context,
                        cached |-> r.cached,
                        key |-> _generate_cache_key(task_type, prompt, context)]
    /\ UNCHANGED <<agents, events, agent_metrics, now, pc, ops, call, rq,
                   last_call, outcomes, nput, nread, inp, logged>>

NextSep == SepPut \/ SepGet

SpecSep == Init /\ [][NextSep]_vars

\* two tasks name the same (task_type, prompt, context) triple
SameTriple(a, b) ==
    /\ a.task_type = b.task_type
    /\ a.prompt = b.prompt
    /\ PyEq(PyDict(a.context), PyDict(b.context))

\* C30: two tasks that differ in task_type, prompt or context never share a
\* cache key, also when task_type or prompt contains ':', so a lookup never
\* returns a response that was cached for a different triple.
C30_DistinctTriplesDistinctKeys ==
    out.op = "get_cached_response" =>
        /\ \A i \in 1..Len(logged) :
               ~SameTriple(logged[i], out) => logged[i].key # out.key
        /\ out.cached.found =>
               \E i \in 1..Len(logged) :
                   /\ SameTriple(logged[i], out)
                   /\ logged[i].response = out.cached.value

(***************************************************************************)
(* The global metrics beyond the capacity of the ledger (specification     *)
(* SpecTotals): the log_event calls of SpecLong, and get_metrics in        *)
(* between.                                                                *)
(***************************************************************************)
LongGetMetrics ==
    /\ inp' = [op |-> "get_metrics"]
    /\ out' = [op |-> "get_metrics"] @@ get_metrics(events, agent_metrics)
    /\ UNCHANGED <<cache, stats, agents, events, agent_metrics, now, pc, ops,
                   call, rq, last_call, outcomes, nput, nread, logged, nlog>>

NextTotals == LongLog \/ LongGetMetrics

SpecTotals == Init /\ [][NextTotals]_vars

\* the sum over all agents of a counter
AgentsSum(field) == SumMetric(agent_metrics, DOMAIN agent_metrics, field)

\* C31: get_metrics reports total_processed equal to the sum over all agents
\* of total_actions, also after more than 1000 logged events, and its
\* success_rate and total_cost are those of the same events: the sum of
\* successful_actions over that total, times 100, and the sum of the agents'
\* total_cost.
C31_GlobalMatchesAgents ==
    out.op = "get_metrics" =>
        /\ out.total_processed = AgentsSum("total_actions")
        /\ out.total_processed > 0 =>
              IsRatio(out.success_rate, AgentsSum("successful_actions") * 100,
                      AgentsSum("total_actions"))
        /\ out.total_cost = AgentsSum("total_cost")

(***************************************************************************)
(* The auto-generated execution ids (specification SpecLong, whose         *)
(* log_event calls all come without an execution_id).                      *)
(***************************************************************************)
\* C32: every log_event call made without an execution_id gets an
\* auto-generated id that no other such call has got, also beyond the
\* capacity of 1000 events: the id of the event logged last differs from the
\* id of every event logged before it.
C32_AutoIdsDistinct ==
    \A i \in 1..(Len(logged) - 1) :
        logged[i].execution_id # logged[Len(logged)].execution_id

====
